---- MODULE Spec2Model ----
(***************************************************************************)
(* Model of pyre's counting engine (src/src/cache/local.rs):               *)
(*   TTLValues  - the per-key ordered map bucket-start -> count            *)
(*   KeyMap     - key -> TTLValues, one per partition                      *)
(*   Local      - the partitioned cache with its clock and its sweeper     *)
(* Local has two builds. The one for target_os = "macos" guards each       *)
(* partition with a Mutex and is the one that type-checks as the source    *)
(* stands (RwLock is never imported and Local::lru calls lock()); Spec     *)
(* models it. The other build's get_or_create (RwLock read / write) is     *)
(* modelled as written in SpecRw.                                          *)
(*                                                                         *)
(* The specifications share the operators below:                           *)
(*   SpecTTL    - one TTLValues driven by inc / lru, arbitrary arguments   *)
(*   SpecKM     - one KeyMap driven by get_or_create / lru                 *)
(*   Spec       - one Local with request threads, clock ticker, sweeper    *)
(*   SpecPoison - Local's get_or_create with guard holders that panic      *)
(*   SpecRw     - get_or_create of the Mutex and of the RwLock build       *)
(*   SpecSweep  - Spec with one request thread and a fair sweeper          *)
(*   SpecOrder  - Spec's calls with the clock at lock time recorded        *)
(*   SpecMono   - get_or_create step by step under a clock that only rises *)
(*   SpecNew    - Local::new / Local::default and calls on what they build *)
(*   SpecPart   - the partition index over all hashes and partition counts *)
(*   SpecLinker - ContextLinker::new (src/src/matcher.rs) on a document    *)
(*   SpecRest   - Handler::handle (src/src/rest.rs) over its caches        *)
(*   SpecRestErr- the handler over caches with poisoned partitions         *)
(*   SpecDeny   - the handler with one more request let in                 *)
(*   SpecLinked - the handler over linkers made by hand as well            *)
(***************************************************************************)
EXTENDS Integers, FiniteSets, Sequences, TLC

\* ---------------------------------------------------------------- bounds
\* timestamps handed to TTLValues / KeyMap directly are 0..MaxTs
MaxTs == 3
\* windows tried for a TTLValues are 0..MaxWindow
MaxWindow == 2
\* at most MaxIncs inc calls are made on one series between two emptyings
MaxIncs == 3

\* the clock of a Local takes the values 0..MaxClock
MaxClock == 2
\* the ttl and the window a Local is constructed with (Local::new arguments)
Ttl == 1
Window == 1
\* at most MaxWrites get_or_create(_, true) calls are counted in a Local
MaxWrites == 2
\* the modulus of u64 arithmetic, scaled down from 2^64
U64Mod == 16
\* the modulus of u32 arithmetic, scaled down from 2^32
U32Mod == 4
\* a Local under SpecPart is constructed with 1..MaxParts partitions
MaxParts == 3
\* partition_count of the Local, as in test_start_lru
PartitionCount == 2
\* at most MaxReqs requests reach get_or_create in a Handler
MaxReqs == 3
\* the rate counts of the configured linkers are 1..MaxRate
MaxRate == 2
\* a configuration handed to ContextLinker::new has 0..MaxLinkers linkers
MaxLinkers == 2

\* ------------------------------------------------------------ TTLValues
\* BTreeMap<u64, u64>: a function whose domain is the finite set of keys
EmptyVals == [b \in {} |-> 0]

Max(S) == CHOOSE x \in S : \A y \in S : y <= x

Min(S) == CHOOSE x \in S : \A y \in S : x <= y

abs_diff(a, b) == IF a >= b THEN a - b ELSE b - a

\* TTLValues::new
TTLValues_new(window) == [window |-> window, vals |-> EmptyVals]

\* find_bucket with the boundary taken into the window (<= for <)
find_bucket_inclusive(self, val) ==
    IF DOMAIN self.vals = {}
    THEN val
    ELSE LET n == Max(DOMAIN self.vals)
         IN  IF abs_diff(val, n) <= self.window THEN n ELSE val

\* find_bucket looking at the smallest key (iter().next() for next_back())
find_bucket_first(self, val) ==
    IF DOMAIN self.vals = {}
    THEN val
    ELSE LET n == Min(DOMAIN self.vals)
         IN  IF abs_diff(val, n) < self.window THEN n ELSE val

\* find_bucket with the comparison turned round (> for <)
find_bucket_flipped(self, val) ==
    IF DOMAIN self.vals = {}
    THEN val
    ELSE LET n == Max(DOMAIN self.vals)
         IN  IF abs_diff(val, n) > self.window THEN n ELSE val

\* find_bucket scanning every key for one within the window of val
find_bucket_scan(self, val) ==
    LET near == {k \in DOMAIN self.vals : abs_diff(val, k) < self.window}
    IN  IF near = {} THEN val ELSE Max(near)

\* TTLValues::find_bucket: compares against the greatest key only
find_bucket(self, val) ==
    IF DOMAIN self.vals = {}
    THEN val
    ELSE LET n == Max(DOMAIN self.vals)
         IN  IF abs_diff(val, n) < self.window THEN n ELSE val

\* TTLValues::get_inner
get_inner(self, val) ==
    LET bucket == find_bucket(self, val)
    IN  IF bucket \in DOMAIN self.vals THEN self.vals[bucket] ELSE 0

RECURSIVE SumOver(_, _)
SumOver(f, S) ==
    IF S = {} THEN 0
    ELSE LET k == Min(S) IN f[k] + SumOver(f, S \ {k})

\* get reading the greatest bucket alone instead of folding over all
get_last_bucket(self) ==
    IF DOMAIN self.vals = {} THEN 0 ELSE self.vals[Max(DOMAIN self.vals)]

\* TTLValues::get: fold over every bucket
get(self) == SumOver(self.vals, DOMAIN self.vals)

\* TTLValues::inc: the series after the call (BTreeMap::insert overwrites)
inc(self, val) ==
    LET bucket  == find_bucket(self, val)
        updated == get_inner(self, bucket) + 1
    IN  [self EXCEPT !.vals =
            [b \in (DOMAIN self.vals) \cup {bucket} |->
                IF b = bucket THEN updated ELSE self.vals[b]]]

\* inc_and_get returning the count of the bucket hit, not the total
inc_and_get_inner(self, val) ==
    LET after == inc(self, val)
    IN  [self |-> after, ret |-> get_inner(after, val)]

\* TTLValues::inc_and_get: the series after the call and the value returned
inc_and_get(self, val) ==
    LET after == inc(self, val)
    IN  [self |-> after, ret |-> get(after)]

\* lru dropping the bucket at the cutoff too (> for >=)
TTLValues_lru_exclusive(self, ttl) ==
    [self EXCEPT !.vals = [b \in {k \in DOMAIN self.vals : k > ttl} |-> self.vals[b]]]

\* TTLValues::lru: first key >= ttl in ascending order, then split_off
TTLValues_lru(self, ttl) ==
    LET kept == {k \in DOMAIN self.vals : k >= ttl}
    IN  IF kept = {}
        THEN [self EXCEPT !.vals = EmptyVals]
        ELSE LET key == Min(kept)
             IN  [self EXCEPT !.vals =
                    [b \in {k \in DOMAIN self.vals : k >= key} |-> self.vals[b]]]

\* --------------------------------------------------------------- KeyMap
\* HashMap<String, TTLValues>: a function whose domain is the stored keys
EmptyTtls == [k \in {} |-> 0]

\* KeyMap::new
KeyMap_new(window) == [window |-> window, ttls |-> EmptyTtls]

\* get_or_create that initialises the entry of an absent key on a read
KeyMap_get_or_create_lazy(self, key, create) ==
    IF key.k \in DOMAIN self.ttls
    THEN IF create
         THEN LET r == inc_and_get(self.ttls[key.k], key.ts)
              IN  [self |-> [self EXCEPT !.ttls[key.k] = r.self], ret |-> r.ret]
         ELSE [self |-> self, ret |-> get(self.ttls[key.k])]
    ELSE LET fresh == TTLValues_new(self.window)
             r == IF create THEN inc_and_get(fresh, key.ts)
                  ELSE [self |-> fresh, ret |-> 0]
         IN  [self |-> [self EXCEPT !.ttls =
                    [k \in (DOMAIN self.ttls) \cup {key.k} |->
                        IF k = key.k THEN r.self ELSE self.ttls[k]]],
              ret |-> r.ret]

\* get_or_create that counts a read of a present key as an event
KeyMap_get_or_create_counting(self, key, create) ==
    IF key.k \in DOMAIN self.ttls
    THEN LET r == inc_and_get(self.ttls[key.k], key.ts)
         IN  [self |-> [self EXCEPT !.ttls[key.k] = r.self],
              ret |-> IF create THEN r.ret ELSE r.ret - 1]
    ELSE IF create
         THEN LET r == inc_and_get(TTLValues_new(self.window), key.ts)
              IN  [self |-> [self EXCEPT !.ttls =
                        [k \in (DOMAIN self.ttls) \cup {key.k} |->
                            IF k = key.k THEN r.self ELSE self.ttls[k]]],
                   ret |-> r.ret]
         ELSE [self |-> self, ret |-> 0]

\* get_or_create whose insert of a new key replaces the map
KeyMap_get_or_create_evicting(self, key, create) ==
    IF key.k \in DOMAIN self.ttls
    THEN IF create
         THEN LET r == inc_and_get(self.ttls[key.k], key.ts)
              IN  [self |-> [self EXCEPT !.ttls[key.k] = r.self], ret |-> r.ret]
         ELSE [self |-> self, ret |-> get(self.ttls[key.k])]
    ELSE IF create
         THEN LET r == inc_and_get(TTLValues_new(self.window), key.ts)
              IN  [self |-> [self EXCEPT !.ttls = [k \in {key.k} |-> r.self]],
                   ret |-> r.ret]
         ELSE [self |-> self, ret |-> 0]

\* get_or_create whose read returns the count of the one bucket the
\* timestamp falls into (get_inner for get)
KeyMap_get_or_create_windowed(self, key, create) ==
    IF key.k \in DOMAIN self.ttls
    THEN IF create
         THEN LET r == inc_and_get(self.ttls[key.k], key.ts)
              IN  [self |-> [self EXCEPT !.ttls[key.k] = r.self], ret |-> r.ret]
         ELSE [self |-> self, ret |-> get_inner(self.ttls[key.k], key.ts)]
    ELSE IF create
         THEN LET r == inc_and_get(TTLValues_new(self.window), key.ts)
              IN  [self |-> [self EXCEPT !.ttls =
                        [k \in (DOMAIN self.ttls) \cup {key.k} |->
                            IF k = key.k THEN r.self ELSE self.ttls[k]]],
                   ret |-> r.ret]
         ELSE [self |-> self, ret |-> 0]

\* KeyMap::get_or_create: the map after the call and the value returned;
\* key is the Key struct [k, ts]
KeyMap_get_or_create(self, key, create) ==
    IF key.k \in DOMAIN self.ttls
    THEN IF create
         THEN LET r == inc_and_get(self.ttls[key.k], key.ts)
              IN  [self |-> [self EXCEPT !.ttls[key.k] = r.self], ret |-> r.ret]
         ELSE [self |-> self, ret |-> get(self.ttls[key.k])]
    ELSE IF create
         THEN LET r == inc_and_get(TTLValues_new(self.window), key.ts)
              IN  [self |-> [self EXCEPT !.ttls =
                        [k \in (DOMAIN self.ttls) \cup {key.k} |->
                            IF k = key.k THEN r.self ELSE self.ttls[k]]],
                   ret |-> r.ret]
         ELSE [self |-> self, ret |-> 0]

\* lru that trims every series and retains them all
KeyMap_lru_keep_empty(self, now) ==
    [self EXCEPT !.ttls =
        [k \in DOMAIN self.ttls |-> TTLValues_lru(self.ttls[k], now)]]

\* lru that tests a series for emptiness before trimming it
KeyMap_lru_test_first(self, now) ==
    [self EXCEPT !.ttls =
        [k \in {j \in DOMAIN self.ttls : DOMAIN self.ttls[j].vals # {}} |->
            TTLValues_lru(self.ttls[k], now)]]

\* lru that clears the whole map as soon as one series is emptied
KeyMap_lru_clear_on_empty(self, now) ==
    LET trimmed == [k \in DOMAIN self.ttls |-> TTLValues_lru(self.ttls[k], now)]
    IN  IF \E k \in DOMAIN self.ttls : DOMAIN trimmed[k].vals = {}
        THEN [self EXCEPT !.ttls = EmptyTtls]
        ELSE [self EXCEPT !.ttls = trimmed]

\* KeyMap::lru: retain the entries whose trimmed series is not empty
KeyMap_lru(self, now) ==
    LET trimmed == [k \in DOMAIN self.ttls |-> TTLValues_lru(self.ttls[k], now)]
    IN  [self EXCEPT !.ttls =
            [k \in {j \in DOMAIN self.ttls : DOMAIN trimmed[j].vals # {}} |->
                trimmed[k]]]

\* the sum of the totals of every stored series
RECURSIVE TotalOver(_, _)
TotalOver(ttls, S) ==
    IF S = {} THEN 0
    ELSE LET k == CHOOSE x \in S : TRUE
         IN  get(ttls[k]) + TotalOver(ttls, S \ {k})

\* ------------------------------------------------------------ variables
VARIABLES
    tv,         \* SpecTTL: the TTLValues under test
    tvCall,     \* SpecTTL: the last call made on tv, [op, arg]
    tvPrev,     \* SpecTTL: tv as it was before that call
    tvIncs,     \* SpecTTL: inc calls since construction / last emptying
    tvPartial,  \* SpecTTL: an lru removed some but not all buckets since then
    tvBack,     \* SpecTTL: an inc came a window or more behind the greatest key
    km,         \* SpecKM: the KeyMap under test
    kmCall,     \* SpecKM: the last call made on km and what it found and returned
    kmPrev,     \* SpecKM: km as it was before that call
    kmCall2,    \* SpecKM: the call made before the last one
    partitions, \* Spec: Local.partitions, the KeyMap inside each Mutex
    lock,       \* Spec: the owner of each partition's Mutex, or "none"
    clock,      \* Spec: Local.clock
    hash64,     \* the xxh3 hash of each key; xxh3 is not computed, the hashes
                \* are chosen by Init
    th,         \* Spec: each request thread's place in Local::get_or_create
    sw,         \* Spec: the sweeper task's place in start_lru / Local::lru
    lastCall,   \* Spec: the get_or_create that has just returned, and its result
    writes,     \* Spec: get_or_create(k, true) calls that have returned, per
                \*       key, counted until the first sweep
    swept,      \* Spec: KeyMap::lru has run on some partition
    pass,       \* Spec: the sweep pass under way or completed with the clock
                \*       held and no writer, and the partitions it started from
    lin,        \* Spec: the partitions obtained by running the calls one at a
                \*       time, each on the result of the one before
    poisoned,   \* the partitions whose lock a panicking holder has poisoned
    target_os,  \* the build: "macos" (Mutex) or "other" (RwLock)
    linkCall,   \* SpecLinker: the document handed to ContextLinker::new and
                \*             whether the call returned Ok or Err
    linker,     \* SpecRest: Handler.linker, the ContextLinker
    caches,     \* SpecRest: Handler.caches, collection -> Local
    req,        \* SpecRest: each worker's place in Handler::handle
    resp,       \* SpecRest: the response just sent, and what the request saw
    served,     \* SpecRest: requests that reached get_or_create, per
                \*           collection and key, counted until the first sweep
    rswept,     \* SpecRest: some cache's sweeper has run
    denied,     \* SpecRest: the (collection, key) pairs a request was denied
                \*           for since a sweep last removed a bucket
    built,      \* SpecNew: the Local last constructed
    newCall,    \* SpecNew: the outcome of the last get_or_create on it
    atLock,     \* SpecOrder: the clock as it was when each thread inside
                \*            get_or_create got its guard
    lastAt,     \* SpecOrder: the same, for the call that has just returned
    loaded,     \* SpecMono: the value each thread inside get_or_create has
                \*           loaded from the clock for Key.ts, or -1
    stamps      \* SpecMono: per key, the timestamps its series was
                \*           incremented with, in the order of the increments

vars == <<tv, tvCall, tvPrev, tvIncs, tvPartial, tvBack,
          km, kmCall, kmPrev, kmCall2,
          partitions, lock, clock, hash64, th, sw, lastCall,
          writes, swept, pass, lin, poisoned, target_os,
          linkCall, linker, caches, req, resp, served, rswept, denied,
          built, newCall,
          atLock, lastAt, loaded, stamps>>

orderVars == <<atLock, lastAt, loaded, stamps>>

monoVars == <<loaded, stamps>>

localVars == <<partitions, lock, clock, hash64, th, sw, lastCall,
               writes, swept, pass, lin, poisoned, target_os>>

buildVars == <<poisoned, target_os>>

restVars == <<linkCall, linker, caches, req, resp, served, rswept, denied>>

newVars == <<built, newCall>>

kmVars == <<km, kmCall, kmPrev, kmCall2>>

ttlVars == <<tv, tvCall, tvPrev, tvIncs, tvPartial, tvBack>>

\* ------------------------------------------------------------- SpecTTL
NoCall == [op |-> "new", arg |-> 0]

InitTTLVars ==
    /\ \E w \in 0..MaxWindow : tv = TTLValues_new(w)
    /\ tvCall = NoCall
    /\ tvPrev = tv
    /\ tvIncs = 0
    /\ tvPartial = FALSE
    /\ tvBack = FALSE

\* a caller invokes TTLValues::inc(t)
TTLInc(t) ==
    /\ tvIncs < MaxIncs
    /\ tv' = inc(tv, t)
    /\ tvCall' = [op |-> "inc", arg |-> t]
    /\ tvPrev' = tv
    /\ tvIncs' = tvIncs + 1
    /\ tvBack' = (tvBack \/ (DOMAIN tv.vals # {} /\
                              t + tv.window <= Max(DOMAIN tv.vals)))
    /\ UNCHANGED tvPartial
    /\ UNCHANGED <<kmVars, localVars, restVars, newVars, orderVars>>

\* a caller invokes TTLValues::lru(c)
TTLLru(c) ==
    /\ tv' = TTLValues_lru(tv, c)
    /\ tvCall' = [op |-> "lru", arg |-> c]
    /\ tvPrev' = tv
    /\ IF DOMAIN tv'.vals = {}
       THEN tvIncs' = 0 /\ tvPartial' = FALSE /\ tvBack' = FALSE
       ELSE /\ tvIncs' = tvIncs
            /\ tvPartial' = (tvPartial \/ DOMAIN tv'.vals # DOMAIN tv.vals)
            /\ tvBack' = tvBack
    /\ UNCHANGED <<kmVars, localVars, restVars, newVars, orderVars>>

\* --------------------------------------------------------------- SpecKM
Keys == {"foo", "bar"}

\* what a caller can observe of key k in a KeyMap: its total, its number of
\* buckets and its greatest bucket key (-1 when there is none)
TotalOf(self, k) == IF k \in DOMAIN self.ttls THEN get(self.ttls[k]) ELSE 0

BucketsOf(self, k) ==
    IF k \in DOMAIN self.ttls THEN Cardinality(DOMAIN self.ttls[k].vals) ELSE 0

LastOf(self, k) ==
    IF k \in DOMAIN self.ttls /\ DOMAIN self.ttls[k].vals # {}
    THEN Max(DOMAIN self.ttls[k].vals) ELSE -1

\* a call record: the call, the value returned, and the total, bucket count
\* and greatest key of k found before the call
NoKmCall == [op |-> "new", k |-> "", ts |-> 0, create |-> FALSE, ret |-> 0,
             total0 |-> 0, nb0 |-> 0, last0 |-> -1]

InitKMVars ==
    /\ \E w \in 1..MaxWindow : km = KeyMap_new(w)
    /\ kmCall = NoKmCall
    /\ kmPrev = km
    /\ kmCall2 = NoKmCall

\* a caller invokes KeyMap::get_or_create(Key {k, ts}, create)
KMGetOrCreate(k, ts, create) ==
    LET r == KeyMap_get_or_create(km, [k |-> k, ts |-> ts], create)
    IN  /\ create => TotalOver(km.ttls, DOMAIN km.ttls) < MaxIncs
        /\ km' = r.self
        /\ kmCall' = [op |-> "get_or_create", k |-> k, ts |-> ts,
                      create |-> create, ret |-> r.ret,
                      total0 |-> TotalOf(km, k), nb0 |-> BucketsOf(km, k),
                      last0 |-> LastOf(km, k)]
        /\ kmPrev' = km
        /\ kmCall2' = kmCall
        /\ UNCHANGED <<ttlVars, localVars, restVars, newVars, orderVars>>

\* a caller invokes KeyMap::lru(now)
KMLru(now) ==
    /\ km' = KeyMap_lru(km, now)
    /\ kmCall' = [NoKmCall EXCEPT !.op = "lru", !.ts = now]
    /\ kmPrev' = km
    /\ kmCall2' = kmCall
    /\ UNCHANGED <<ttlVars, localVars, restVars, newVars, orderVars>>

\* ---------------------------------------------------------------- Spec
Threads == {"t1", "t2"}

Partitions == 0..(PartitionCount - 1)

\* h as u32: the low 32 bits
as_u32(h) == h % U32Mod

\* a partition index that moves with the clock of the constructed Local
partition_index_salted(h, partition_count) ==
    (as_u32(h) + built.local.clock) % partition_count

\* Local::get_or_create: hash64(key) as u32 % partition_count
partition_index(h, partition_count) == as_u32(h) % partition_count

\* the partition of a key in the Local of Spec
partition_of(key) == partition_index(hash64[key], PartitionCount)

\* a lock whose poison is ignored (PoisonError::into_inner)
lock_result_into_inner(p) == IF p \in Partitions THEN "Ok" ELSE "Err"

\* the partitions the hasher sends the keys to: the keys are interchangeable,
\* so of two placements that differ by swapping the keys one is kept
Placements == {h \in [Keys -> Partitions] : h["foo"] <= h["bar"]}

\* what inner.lock() gives once the mutex is free: Err if a holder panicked
lock_result(p) == IF p \in poisoned THEN "Err" ELSE "Ok"

\* a lock that only the sweeper's guard keeps others out of
LockFree_unless_sweeping(p) == lock[p] # "sweeper"

\* a lock that lets everyone in
LockFree_always(p) == lock[p] = lock[p]

\* Mutex::lock blocks while the mutex guarding the partition is taken
LockFree(p) == lock[p] = "none"

\* a thread that is not inside get_or_create
IdleThread == [pc |-> "idle", k |-> "", create |-> FALSE,
               seen |-> KeyMap_new(Window)]

\* the call that has just returned: its arguments, the value in Ok(val), and
\* the partitions and the clock as they were when KeyMap::get_or_create was
\* entered
NoLocalCall == [k |-> "", create |-> FALSE, ret |-> 0, before |-> <<>>,
                clock0 |-> 0, linret |-> 0, err |-> FALSE]

NoPass == [st |-> "none", snap |-> <<>>, now |-> 0]

SleepingSweeper == [pc |-> "sleep", i |-> 0, now |-> 0]

\* Local::new, with start_lru and start_clock called as Handler::new does
InitLocalVars ==
    /\ partitions = [p \in Partitions |-> KeyMap_new(Window)]
    /\ lock = [p \in Partitions |-> "none"]
    /\ clock \in 0..MaxClock
    /\ hash64 \in Placements
    /\ th = [t \in Threads |-> IdleThread]
    /\ sw = SleepingSweeper
    /\ lastCall = NoLocalCall
    /\ writes = [k \in Keys |-> 0]
    /\ swept = FALSE
    /\ pass = NoPass
    /\ lin = partitions
    /\ poisoned = {}
    /\ target_os = "macos"

\* the events stored in the Local, and the create calls still under way
RECURSIVE StoredIn(_)
StoredIn(P) ==
    IF P = {} THEN 0
    ELSE LET p == CHOOSE x \in P : TRUE
         IN  TotalOver(partitions[p].ttls, DOMAIN partitions[p].ttls)
                + StoredIn(P \ {p})

Stored == StoredIn(Partitions)

WritesInFlight == Cardinality({t \in Threads : th[t].pc # "idle" /\ th[t].create})

\* a request thread in Local::get_or_create(k, create) gets the guard from
\* inner.lock(): from here to the return the map it works on is the one the
\* guard gives it
AcquireWithin(t, k, create, limit) ==
    /\ target_os = "macos"
    /\ th[t].pc = "idle"
    /\ create => Stored + WritesInFlight < limit
    /\ LockFree(partition_of(k))
    /\ lock_result(partition_of(k)) = "Ok"
    /\ lock' = [lock EXCEPT ![partition_of(k)] = t]
    /\ th' = [th EXCEPT ![t] = [pc |-> "locked", k |-> k, create |-> create,
                                seen |-> partitions[partition_of(k)]]]
    /\ lastCall' = NoLocalCall
    /\ UNCHANGED <<partitions, clock, hash64, sw, writes, swept, pass, lin>>
    /\ UNCHANGED <<ttlVars, kmVars, buildVars, restVars, newVars>>

\* a return whose Key.ts is the clock value from when the guard was obtained
Return_ts_at_lock(t) ==
    LET p == partition_of(th[t].k)
        r == KeyMap_get_or_create(th[t].seen, [k |-> th[t].k, ts |-> atLock[t]],
                                  th[t].create)
        l == KeyMap_get_or_create(lin[p], [k |-> th[t].k, ts |-> atLock[t]],
                                  th[t].create)
    IN  /\ th[t].pc = "locked"
        /\ partitions' = [partitions EXCEPT ![p] = r.self]
        /\ lin' = [lin EXCEPT ![p] = l.self]
        /\ lock' = [lock EXCEPT ![p] = "none"]
        /\ lastCall' = [k |-> th[t].k, create |-> th[t].create, ret |-> r.ret,
                        before |-> partitions, clock0 |-> clock,
                        linret |-> l.ret, err |-> FALSE]
        /\ writes' = IF th[t].create /\ ~swept
                     THEN [writes EXCEPT ![th[t].k] = @ + 1] ELSE writes
        /\ pass' = IF th[t].create THEN NoPass ELSE pass
        /\ th' = [th EXCEPT ![t] = IdleThread]
        /\ UNCHANGED <<clock, hash64, sw, swept>>
        /\ UNCHANGED <<ttlVars, kmVars, buildVars, restVars, newVars>>

\* at most MaxWrites events are stored in the Local
Acquire(t, k, create) == AcquireWithin(t, k, create, MaxWrites)

\* KeyMap::get_or_create runs with Key.ts = ts on the map behind the guard,
\* Ok(val) is returned and the guard is dropped
ReturnAt(t, ts) ==
    LET p == partition_of(th[t].k)
        r == KeyMap_get_or_create(th[t].seen, [k |-> th[t].k, ts |-> ts],
                                  th[t].create)
        l == KeyMap_get_or_create(lin[p], [k |-> th[t].k, ts |-> ts],
                                  th[t].create)
    IN  /\ th[t].pc = "locked"
        /\ partitions' = [partitions EXCEPT ![p] = r.self]
        /\ lin' = [lin EXCEPT ![p] = l.self]
        /\ lock' = [lock EXCEPT ![p] = "none"]
        /\ lastCall' = [k |-> th[t].k, create |-> th[t].create, ret |-> r.ret,
                        before |-> partitions, clock0 |-> clock,
                        linret |-> l.ret, err |-> FALSE]
        /\ writes' = IF th[t].create /\ ~swept
                     THEN [writes EXCEPT ![th[t].k] = @ + 1] ELSE writes
        /\ pass' = IF th[t].create THEN NoPass ELSE pass
        /\ th' = [th EXCEPT ![t] = IdleThread]
        /\ UNCHANGED <<clock, hash64, sw, swept>>
        /\ UNCHANGED <<ttlVars, kmVars, buildVars, restVars, newVars>>

\* the clock is loaded into Key.ts and the call goes on to its return
Return(t) == ReturnAt(t, clock)

\* a call of get_or_create from where it holds the guard, and to its return
Begin(t, k, create) == Acquire(t, k, create) /\ UNCHANGED orderVars

Finish(t) == Return(t) /\ UNCHANGED orderVars

\* start_clock's task stores the system time, which is whatever the host
\* says it is; the tests store values of their own
ClockTick(v) ==
    /\ v # clock
    /\ clock' = v
    /\ pass' = NoPass
    /\ lastCall' = NoLocalCall
    /\ UNCHANGED <<partitions, lock, hash64, th, sw, writes, swept, lin>>
    /\ UNCHANGED <<ttlVars, kmVars, buildVars, restVars, newVars, orderVars>>

\* start_lru's ticker fires and Local::lru begins with the first partition
SweepTick ==
    /\ sw.pc = "sleep"
    /\ sw' = [pc |-> "load", i |-> 0, now |-> 0]
    /\ pass' = [st |-> "run", snap |-> partitions, now |-> 0]
    /\ lastCall' = NoLocalCall
    /\ UNCHANGED <<partitions, lock, clock, hash64, th, writes, swept, lin>>
    /\ UNCHANGED <<ttlVars, kmVars, buildVars, restVars, newVars, orderVars>>

\* let now = self.clock.load(Relaxed) - self.ttl: with clock < ttl the u64
\* subtraction panics where overflow checks are compiled in (the task ends)
\* and wraps where they are not
SweepLoad ==
    /\ sw.pc = "load"
    /\ \/ /\ clock >= Ttl
          /\ sw' = [sw EXCEPT !.pc = "lock", !.now = clock - Ttl]
          /\ pass' = IF pass.st = "run" THEN [pass EXCEPT !.now = clock - Ttl]
                     ELSE pass
       \/ /\ clock < Ttl
          /\ sw' = [sw EXCEPT !.pc = "lock", !.now = clock - Ttl + U64Mod]
          /\ pass' = IF pass.st = "run"
                     THEN [pass EXCEPT !.now = clock - Ttl + U64Mod] ELSE pass
       \/ /\ clock < Ttl
          /\ sw' = [sw EXCEPT !.pc = "dead"]
          /\ pass' = NoPass
    /\ lastCall' = NoLocalCall
    /\ UNCHANGED <<partitions, lock, clock, hash64, th, writes, swept, lin>>
    /\ UNCHANGED <<ttlVars, kmVars, buildVars, restVars, newVars, orderVars>>

\* partition.lock() returns Ok with the guard
SweepLock ==
    /\ sw.pc = "lock"
    /\ LockFree(sw.i)
    /\ lock_result(sw.i) = "Ok"
    /\ lock' = [lock EXCEPT ![sw.i] = "sweeper"]
    /\ sw' = [sw EXCEPT !.pc = "lru"]
    /\ lastCall' = NoLocalCall
    /\ UNCHANGED <<partitions, clock, hash64, th, writes, swept, pass, lin>>
    /\ UNCHANGED <<ttlVars, kmVars, buildVars, restVars, newVars, orderVars>>

\* a sweep whose guard outlives the loop body
SweepLru_keeps_guard ==
    /\ sw.pc = "lru"
    /\ partitions' = [partitions EXCEPT ![sw.i] = KeyMap_lru(@, sw.now)]
    /\ lin' = [lin EXCEPT ![sw.i] = KeyMap_lru(@, sw.now)]
    /\ lock' = lock
    /\ swept' = TRUE
    /\ writes' = [k \in Keys |-> 0]
    /\ IF sw.i + 1 < PartitionCount
       THEN /\ sw' = [sw EXCEPT !.pc = "load", !.i = sw.i + 1]
            /\ pass' = pass
       ELSE /\ sw' = SleepingSweeper
            /\ pass' = IF pass.st = "run" THEN [pass EXCEPT !.st = "done"]
                       ELSE pass
    /\ lastCall' = NoLocalCall
    /\ UNCHANGED <<clock, hash64, th>>
    /\ UNCHANGED <<ttlVars, kmVars, buildVars, restVars, newVars, orderVars>>

\* p.lru(now), the guard is dropped, and the loop goes to the next partition
\* or Local::lru returns
SweepLru ==
    /\ sw.pc = "lru"
    /\ partitions' = [partitions EXCEPT ![sw.i] = KeyMap_lru(@, sw.now)]
    /\ lin' = [lin EXCEPT ![sw.i] = KeyMap_lru(@, sw.now)]
    /\ lock' = [lock EXCEPT ![sw.i] = "none"]
    /\ swept' = TRUE
    /\ writes' = [k \in Keys |-> 0]
    /\ IF sw.i + 1 < PartitionCount
       THEN /\ sw' = [sw EXCEPT !.pc = "load", !.i = sw.i + 1]
            /\ pass' = pass
       ELSE /\ sw' = SleepingSweeper
            /\ pass' = IF pass.st = "run" THEN [pass EXCEPT !.st = "done"]
                       ELSE pass
    /\ lastCall' = NoLocalCall
    /\ UNCHANGED <<clock, hash64, th>>
    /\ UNCHANGED <<ttlVars, kmVars, buildVars, restVars, newVars, orderVars>>

\* Handler::handle is followed one request at a time; the clock tasks and the
\* sweepers of the caches run between its steps
Workers == {"w1"}

\* a worker that is not inside Handler::handle; stale says that a sweep
\* removed a bucket after the request's get_or_create(key, true)
IdleReq == [pc |-> "idle", coll |-> "", key |-> "", val |-> 0, i |-> 1,
            linked |-> 0, n |-> 0, core |-> "none", stale |-> FALSE]

\* no response: status 0
NoResp == [status |-> 0, msg |-> "", allowed |-> FALSE, coll |-> "",
           key |-> "", val |-> 0, linked |-> 0, n |-> 0, before |-> <<>>,
           core |-> "none"]

\* no Local constructed yet
NotBuilt == [how |-> "none", args |-> << >>, local |-> << >>]

NoNewCall == [k |-> "", outcome |-> "none", partition |-> 0]

\* no ContextLinker made yet
NoLinker == [contexts |-> <<>>, ttls |-> <<>>, sweep |-> 0]

\* no document handed to ContextLinker::new yet
NoLinkCall == [doc |-> [kind |-> "none", linkers |-> <<>>, sweep_seconds |-> 0],
               outcome |-> "none"]

\* the variables of a specification that is not the one being run
InitRestIdle ==
    /\ linkCall = NoLinkCall
    /\ linker = NoLinker
    /\ caches = <<>>
    /\ req = [t \in Workers |-> IdleReq]
    /\ resp = NoResp
    /\ served = <<>>
    /\ rswept = FALSE
    /\ denied = {}

InitNewIdle ==
    /\ built = NotBuilt
    /\ newCall = NoNewCall

InitOrderIdle ==
    /\ atLock = [t \in Threads |-> 0]
    /\ lastAt = 0
    /\ loaded = [t \in Threads |-> -1]
    /\ stamps = [k \in Keys |-> << >>]

InitTTLIdle ==
    /\ tv = TTLValues_new(1) /\ tvCall = NoCall /\ tvPrev = tv
    /\ tvIncs = 0 /\ tvPartial = FALSE /\ tvBack = FALSE

InitKMIdle ==
    /\ km = KeyMap_new(1) /\ kmCall = NoKmCall /\ kmPrev = km
    /\ kmCall2 = NoKmCall

InitLocalQuiet ==
    /\ partitions = [p \in Partitions |-> KeyMap_new(Window)]
    /\ lock = [p \in Partitions |-> "none"]
    /\ clock = 0
    /\ th = [t \in Threads |-> IdleThread]
    /\ sw = SleepingSweeper
    /\ lastCall = NoLocalCall
    /\ writes = [k \in Keys |-> 0]
    /\ swept = FALSE
    /\ pass = NoPass
    /\ lin = partitions
    /\ poisoned = {}
    /\ target_os = "macos"

InitLocalIdle == InitLocalQuiet /\ hash64 = [k \in Keys |-> 0]

InitTTL ==
    /\ InitTTLVars
    /\ InitKMIdle
    /\ InitLocalIdle
    /\ InitRestIdle
    /\ InitNewIdle
    /\ InitOrderIdle

InitKM ==
    /\ InitKMVars
    /\ InitTTLIdle
    /\ InitLocalIdle
    /\ InitRestIdle
    /\ InitNewIdle
    /\ InitOrderIdle

NextKM ==
    \/ \E k \in Keys, ts \in 0..MaxTs : KMGetOrCreate(k, ts, TRUE)
    \/ \E k \in Keys, ts \in {0, MaxTs} : KMGetOrCreate(k, ts, FALSE)
    \/ \E now \in 0..(MaxTs + 1) : KMLru(now)

SpecKM == InitKM /\ [][NextKM]_vars

Init ==
    /\ InitLocalVars
    /\ InitTTLIdle
    /\ InitKMIdle
    /\ InitRestIdle
    /\ InitNewIdle
    /\ InitOrderIdle

Next ==
    \/ \E t \in Threads, k \in Keys, create \in BOOLEAN : Begin(t, k, create)
    \/ \E t \in Threads : Finish(t)
    \/ \E v \in 0..MaxClock : ClockTick(v)
    \/ SweepTick
    \/ SweepLoad
    \/ SweepLock
    \/ SweepLru

Spec == Init /\ [][Next]_vars

NextTTL ==
    \/ \E t \in 0..MaxTs : TTLInc(t)
    \/ \E c \in 0..(MaxTs + 1) : TTLLru(c)

SpecTTL == InitTTL /\ [][NextTTL]_vars

\* ------------------------------------------------ claims on TTLValues
\* C2: with no partial trim in between, total() (TTLValues::get) equals the
\* number of inc calls made since construction or since the series was last
\* emptied by lru, whatever the order of the timestamps.
C2_TotalCountsIncs == (~tvPartial) => get(tv) = tvIncs

\* C2 witness: three incs, the last one behind the greatest key, two buckets.
C2_Witness ==
    /\ ~tvPartial
    /\ tvCall.op = "inc"
    /\ tvIncs >= 3
    /\ Cardinality(DOMAIN tv.vals) = 2
    /\ tvCall.arg < Max(DOMAIN tv.vals)
    /\ get(tv) = tvIncs

\* the buckets other than b are as they were before the last call
OthersUnchanged(b) ==
    \A k \in (DOMAIN tvPrev.vals) \ {b} :
        k \in DOMAIN tv.vals /\ tv.vals[k] = tvPrev.vals[k]

\* the last inc coalesced into the greatest key of the series
Coalesced ==
    LET last == Max(DOMAIN tvPrev.vals)
    IN  /\ DOMAIN tv.vals = DOMAIN tvPrev.vals
        /\ tv.vals[last] = tvPrev.vals[last] + 1
        /\ OthersUnchanged(last)

\* C3 as stated (for a window of at least 1): inc(t) coalesces into the
\* greatest key b_last when |t - b_last| < window, and otherwise starts a new
\* bucket (t, 1).
C3_AsStated ==
    (tvCall.op = "inc" /\ tv.window >= 1) =>
        LET t == tvCall.arg
        IN  IF DOMAIN tvPrev.vals = {}
            THEN tv.vals = [b \in {t} |-> 1]
            ELSE IF abs_diff(t, Max(DOMAIN tvPrev.vals)) < tvPrev.window
                 THEN Coalesced
                 ELSE /\ DOMAIN tv.vals = (DOMAIN tvPrev.vals) \cup {t}
                      /\ tv.vals[t] = 1
                      /\ OthersUnchanged(t)

\* C3 amended: as stated, except that when |t - b_last| >= window the bucket
\* keyed t gets its previous count plus one: (t, 1) only if no bucket had
\* key t, and an older bucket with key t grows by one.
C3_CoalescingRule ==
    tvCall.op = "inc" =>
        LET t == tvCall.arg
        IN  IF DOMAIN tvPrev.vals = {}
            THEN tv.vals = [b \in {t} |-> 1]
            ELSE IF abs_diff(t, Max(DOMAIN tvPrev.vals)) < tvPrev.window
                 THEN Coalesced
                 ELSE /\ DOMAIN tv.vals = (DOMAIN tvPrev.vals) \cup {t}
                      /\ tv.vals[t] =
                            (IF t \in DOMAIN tvPrev.vals
                             THEN tvPrev.vals[t] ELSE 0) + 1
                      /\ OthersUnchanged(t)

\* C3 witness: an inc exactly one window after the greatest key started a
\* new bucket.
C3_Witness ==
    /\ tvCall.op = "inc"
    /\ tv.window > 0
    /\ DOMAIN tvPrev.vals # {}
    /\ tvCall.arg = Max(DOMAIN tvPrev.vals) + tvPrev.window
    /\ tvCall.arg \notin DOMAIN tvPrev.vals
    /\ tv.vals[tvCall.arg] = 1

Spaced(self) ==
    \A k1, k2 \in DOMAIN self.vals : k1 < k2 => k2 - k1 >= self.window

\* C4 as stated: after any sequence of inc and lru calls any two distinct
\* bucket keys are at least one window apart.
C4_AsStated == Spaced(tv)

\* C4 amended: the spacing holds as long as no inc was called with a
\* timestamp a window or more behind the greatest key of the series (so in
\* particular when the timestamps never decrease).
C4_SpacingForward == (~tvBack) => Spaced(tv)

\* C4 witness: three buckets built by forward timestamps, after a trim.
C4_Witness ==
    /\ ~tvBack
    /\ tv.window >= 1
    /\ tvPartial
    /\ tvCall.op = "inc"
    /\ Cardinality(DOMAIN tv.vals) >= 2
    /\ Spaced(tv)

\* C5: lru(cutoff) removes exactly the buckets with key < cutoff and leaves
\* the counts of the others alone.
C5_TrimExact ==
    tvCall.op = "lru" =>
        /\ DOMAIN tv.vals = {k \in DOMAIN tvPrev.vals : k >= tvCall.arg}
        /\ \A k \in DOMAIN tv.vals : tv.vals[k] = tvPrev.vals[k]

\* C5 witness: the cutoff is itself a bucket key, older buckets went and
\* the bucket at the cutoff stayed.
C5_Witness ==
    /\ tvCall.op = "lru"
    /\ tvCall.arg \in DOMAIN tvPrev.vals
    /\ \E k \in DOMAIN tvPrev.vals : k < tvCall.arg
    /\ DOMAIN tv.vals = {k \in DOMAIN tvPrev.vals : k >= tvCall.arg}
    /\ tv.vals[tvCall.arg] = tvPrev.vals[tvCall.arg]

\* --------------------------------------------------- claims on KeyMap
\* C7: KeyMap::get_or_create on an absent key with create creates the entry
\* and returns 1; on a present key with total n, create with any timestamp
\* returns n + 1 and leaves the key present with total n + 1; without create
\* a present key returns n.
C7_KeyStateMachine ==
    kmCall.op = "get_or_create" =>
        LET k == kmCall.k
            n == TotalOf(kmPrev, k)
        IN  IF kmCall.create
            THEN /\ k \notin DOMAIN kmPrev.ttls => kmCall.ret = 1
                 /\ kmCall.ret = n + 1
                 /\ k \in DOMAIN km.ttls
                 /\ TotalOf(km, k) = n + 1
            ELSE k \in DOMAIN kmPrev.ttls =>
                    /\ kmCall.ret = n
                    /\ k \in DOMAIN km.ttls
                    /\ TotalOf(km, k) = n

\* C7 witness: a create on a present key of total 2, with a timestamp a
\* window or more before its last bucket, returned 3.
C7_Witness ==
    /\ kmCall.op = "get_or_create"
    /\ kmCall.create
    /\ kmCall.k \in DOMAIN kmPrev.ttls
    /\ kmCall.total0 = 2
    /\ kmCall.ts + km.window <= kmCall.last0
    /\ kmCall.ret = 3

\* the last two calls were get_or_create(k, true) on one key at timestamps
\* less than a window apart
TwoWrites ==
    /\ kmCall2.op = "get_or_create" /\ kmCall2.create
    /\ kmCall.op = "get_or_create" /\ kmCall.create
    /\ kmCall.k = kmCall2.k
    /\ abs_diff(kmCall2.ts, kmCall.ts) < km.window

\* C10 as stated: two successive get_or_create(k, true) at t1, t2 with
\* |t1 - t2| < window advance the total by exactly 2 and add at most one
\* bucket, from any state of the series.
C10_AsStated ==
    TwoWrites =>
        /\ TotalOf(km, kmCall.k) = kmCall2.total0 + 2
        /\ BucketsOf(km, kmCall.k) <= kmCall2.nb0 + 1

\* C10 amended: the total advances by exactly 2 from any state; at most one
\* bucket is added when t1 is not a window or more behind the greatest
\* bucket key of k (or k has no bucket).
C10_TwoWritesOneBucket ==
    TwoWrites =>
        /\ TotalOf(km, kmCall.k) = kmCall2.total0 + 2
        /\ (kmCall2.last0 = -1 \/ kmCall2.ts + km.window > kmCall2.last0) =>
                BucketsOf(km, kmCall.k) <= kmCall2.nb0 + 1

\* C10 witness: t1 opened a new bucket a window or more after the last one
\* and a different t2 coalesced into it.
C10_Witness ==
    /\ TwoWrites
    /\ kmCall2.nb0 >= 1
    /\ kmCall2.ts >= kmCall2.last0 + km.window
    /\ kmCall.ts # kmCall2.ts
    /\ BucketsOf(km, kmCall.k) = kmCall2.nb0 + 1
    /\ TotalOf(km, kmCall.k) = kmCall2.total0 + 2


\* ---------------------------------------------------- claims on Local
\* what get_or_create(k, false) returns in the current state
ReadValue(k) ==
    KeyMap_get_or_create(partitions[partition_of(k)],
                         [k |-> k, ts |-> clock], FALSE).ret

\* the call that has just returned was get_or_create(_, false)
ReadReturned == lastCall.k # "" /\ ~lastCall.create

\* C1: with no sweep so far, a get_or_create(k, false) that returns after N
\* get_or_create(k, true) calls by any threads have returned, returns N: no
\* increment is lost, however the calls interleave.
C1_NoLostUpdates ==
    (ReadReturned /\ ~swept) => lastCall.ret = writes[lastCall.k]

\* C1 witness: two writes of the key have returned and the read returned 2
\* while the other thread was inside a call on the other key.
C1_Witness ==
    /\ ReadReturned
    /\ ~swept
    /\ writes[lastCall.k] = 2
    /\ lastCall.ret = 2
    /\ \E t \in Threads :
          th[t].pc = "locked" /\ th[t].k # lastCall.k

\* the buckets of k that the pass found and that are not older than its cutoff
SnapKept(k) ==
    LET m == pass.snap[partition_of(k)]
    IN  IF k \in DOMAIN m.ttls
        THEN {b \in DOMAIN m.ttls[k].vals : b >= pass.now}
        ELSE {}

\* the sum of their counts
SnapKeptTotal(k) ==
    IF SnapKept(k) = {} THEN 0
    ELSE SumOver(pass.snap[partition_of(k)].ttls[k].vals, SnapKept(k))

\* C6: after a full sweep pass during which the clock was held and no write
\* returned, with cutoff = clock - ttl as Local::lru computes it: no stored
\* bucket has a key below the cutoff, no stored series is empty, and a read
\* of any key returns the sum of the counts of its buckets that survived
\* (0 when none did or the key was never stored).
C6_AfterSweep ==
    pass.st = "done" =>
        /\ \A p \in Partitions : \A k \in DOMAIN partitions[p].ttls :
              /\ DOMAIN partitions[p].ttls[k].vals # {}
              /\ \A b \in DOMAIN partitions[p].ttls[k].vals : b >= pass.now
        /\ \A k \in Keys : ReadValue(k) = SnapKeptTotal(k)

\* C6 witness: with clock >= ttl, the pass removed an old bucket of a key,
\* kept a newer bucket of that key, and found the other key absent.
C6_Witness ==
    /\ pass.st = "done"
    /\ clock >= Ttl
    /\ pass.now = clock - Ttl
    /\ \E k \in Keys :
          /\ k \in DOMAIN pass.snap[partition_of(k)].ttls
          /\ \E b \in DOMAIN pass.snap[partition_of(k)].ttls[k].vals :
                b < pass.now
          /\ SnapKept(k) # {}
          /\ ReadValue(k) >= 1
    /\ \E k \in Keys : ReadValue(k) = 0

\* every partition holds the keys it held before the last call
SameKeys ==
    \A p \in Partitions :
        DOMAIN partitions[p].ttls = DOMAIN lastCall.before[p].ttls

\* the key of the last call was not stored when the call was made
WasAbsent ==
    lastCall.k \notin DOMAIN lastCall.before[partition_of(lastCall.k)].ttls

\* C8: get_or_create(k, false) on a key that is not stored returns Ok(0) and
\* creates no entry: every partition holds the same keys as before.
C8_ReadAbsent ==
    (ReadReturned /\ WasAbsent) => (lastCall.ret = 0 /\ SameKeys)

\* C8 witness: a read of a key that a sweep evicted returned 0 while the
\* other key is stored.
C8_Witness ==
    /\ ReadReturned
    /\ WasAbsent
    /\ swept
    /\ lastCall.ret = 0
    /\ \E k \in Keys : k # lastCall.k /\ ReadValue(k) >= 1
    /\ lastCall.k \notin DOMAIN partitions[partition_of(lastCall.k)].ttls

\* C9: get_or_create(k, false) leaves the partitions (keys, bucket keys,
\* counts) and the clock as they were, and the value it returned is the value
\* a read made right after it returns: any number of reads in a row with no
\* write or sweep in between return the same value.
C9_ReadPure ==
    ReadReturned =>
        /\ partitions = lastCall.before
        /\ clock = lastCall.clock0
        /\ lastCall.ret = ReadValue(lastCall.k)

\* C9 witness: a read of a key with two buckets returned 2 while the other
\* thread holds the guard of the other partition.
C9_Witness ==
    /\ ReadReturned
    /\ lastCall.ret = 2
    /\ Cardinality(DOMAIN partitions[partition_of(lastCall.k)]
                              .ttls[lastCall.k].vals) = 2
    /\ \E t \in Threads : th[t].pc = "locked"

\* C11: the calls on a partition are linearized in the order in which they got
\* its lock: the value every get_or_create returns, and the KeyMap of every
\* partition after any interleaving of get_or_create calls and sweeps, are
\* those of running the same calls one at a time in that order.
C11_Linearizable ==
    /\ partitions = lin
    /\ lastCall.k # "" => lastCall.ret = lastCall.linret

\* C11 witness: after a sweep of the partition, a second write returned 2
\* while the other thread was inside a call and the sweeper was waiting for
\* the lock of that same partition.
C11_Witness ==
    /\ swept
    /\ lastCall.k # "" /\ lastCall.create /\ lastCall.ret = 2
    /\ sw.pc = "lock" /\ sw.i = partition_of(lastCall.k)
    /\ \E t \in Threads : th[t].pc = "locked"

\* ---------------------------------------------------------- SpecPoison
\* Nothing in the crate panics while it holds a partition guard, so the Err
\* arm of inner.lock() is only taken after a fault: here the thread that
\* holds the guard unwinds, before or after its upsert reached the map, and
\* std marks the Mutex poisoned as the guard is dropped.
Panic(t) ==
    LET p == partition_of(th[t].k)
        r == KeyMap_get_or_create(th[t].seen, [k |-> th[t].k, ts |-> clock],
                                  th[t].create)
    IN  /\ th[t].pc = "locked"
        /\ poisoned' = poisoned \cup {p}
        /\ \E applied \in BOOLEAN :
              /\ partitions' = IF applied THEN [partitions EXCEPT ![p] = r.self]
                               ELSE partitions
              /\ lin' = IF applied THEN [lin EXCEPT ![p] = r.self] ELSE lin
        /\ lock' = [lock EXCEPT ![p] = "none"]
        /\ th' = [th EXCEPT ![t] = IdleThread]
        /\ lastCall' = NoLocalCall
        /\ UNCHANGED <<clock, hash64, sw, writes, swept, pass, target_os>>
        /\ UNCHANGED <<ttlVars, kmVars, restVars, newVars, orderVars>>

\* Local::get_or_create on a poisoned partition: inner.lock() returns Err and
\* the call returns Err(CacheError) without touching the map
Fail(t, k, create) ==
    /\ target_os = "macos"
    /\ th[t].pc = "idle"
    /\ LockFree(partition_of(k))
    /\ lock_result(partition_of(k)) = "Err"
    /\ lastCall' = [k |-> k, create |-> create, ret |-> 0,
                    before |-> partitions, clock0 |-> clock, linret |-> 0,
                    err |-> TRUE]
    /\ UNCHANGED <<partitions, lock, clock, hash64, th, sw, writes, swept,
                   pass, lin>>
    /\ UNCHANGED <<ttlVars, kmVars, buildVars, restVars, newVars, orderVars>>

NextPoison ==
    \/ \E t \in Threads, k \in Keys, create \in BOOLEAN : Begin(t, k, create)
    \/ \E t \in Threads : Finish(t)
    \/ \E t \in Threads : Panic(t)
    \/ \E t \in Threads, k \in Keys, create \in BOOLEAN : Fail(t, k, create)
    \/ \E v \in 0..MaxClock : ClockTick(v)

SpecPoison == Init /\ [][NextPoison]_vars

\* C12: a get_or_create on a key of a poisoned partition returns
\* Err(CacheError), no count, leaves the partitions and the clock as they
\* were and keeps no guard; a get_or_create on a key of any other partition
\* returns Ok with the number of writes of that key that have returned.
C12_PoisonedPartition ==
    lastCall.k # "" =>
        IF partition_of(lastCall.k) \in poisoned
        THEN /\ lastCall.err
             /\ partitions = lastCall.before
             /\ clock = lastCall.clock0
             /\ lock[partition_of(lastCall.k)] = "none"
        ELSE /\ ~lastCall.err
             /\ lastCall.ret = writes[lastCall.k]

\* C12 witness: a call on the poisoned partition returned Err while the other
\* key, in the other partition, holds a write and the other thread is inside
\* a call on it.
C12_Witness ==
    /\ lastCall.k # "" /\ lastCall.err
    /\ partition_of(lastCall.k) \in poisoned
    /\ \E k \in Keys :
          /\ partition_of(k) \notin poisoned
          /\ ReadValue(k) >= 1
          /\ \E t \in Threads : th[t].pc = "locked" /\ th[t].k = k

\* -------------------------------------------------------------- SpecRw
\* The build for targets other than macOS, as written: partitions are
\* RwLock<KeyMap>, get_or_create takes inner.write() when create is true and
\* inner.read() when it is false. Only get_or_create is run here; the Mutex
\* build runs beside it so that the two can be compared.

\* the threads holding a read guard of partition p
Readers(p) ==
    {t \in Threads : th[t].pc = "reading" /\ partition_of(th[t].k) = p}

\* RwLock::read blocks while a writer holds the lock
ReadLockFree(p) == lock[p] = "none"

\* a write lock that does not wait for the readers to leave
WriteLockFree_ignores_readers(p) == lock[p] = "none"

\* RwLock::write blocks while a writer or any reader holds the lock
WriteLockFree(p) == lock[p] = "none" /\ Readers(p) = {}

InitRwVars ==
    /\ partitions = [p \in Partitions |-> KeyMap_new(Window)]
    /\ lock = [p \in Partitions |-> "none"]
    /\ clock \in 0..MaxClock
    /\ hash64 \in Placements
    /\ th = [t \in Threads |-> IdleThread]
    /\ sw = SleepingSweeper
    /\ lastCall = NoLocalCall
    /\ writes = [k \in Keys |-> 0]
    /\ swept = FALSE
    /\ pass = NoPass
    /\ lin = partitions
    /\ poisoned = {}
    /\ target_os \in {"macos", "other"}

InitRw ==
    /\ InitRwVars
    /\ InitTTLIdle
    /\ InitKMIdle
    /\ InitRestIdle
    /\ InitNewIdle
    /\ InitOrderIdle

\* get_or_create of the RwLock build gets its guard: write() or read()
BeginRw(t, k, create) ==
    /\ target_os = "other"
    /\ th[t].pc = "idle"
    /\ create => Stored + WritesInFlight < MaxWrites
    /\ lock_result(partition_of(k)) = "Ok"
    /\ IF create
       THEN /\ WriteLockFree(partition_of(k))
            /\ lock' = [lock EXCEPT ![partition_of(k)] = t]
       ELSE /\ ReadLockFree(partition_of(k))
            /\ lock' = lock
    /\ th' = [th EXCEPT ![t] = [pc |-> IF create THEN "locked" ELSE "reading",
                                k |-> k, create |-> create,
                                seen |-> partitions[partition_of(k)]]]
    /\ lastCall' = NoLocalCall
    /\ UNCHANGED <<partitions, clock, hash64, sw, writes, swept, pass, lin>>
    /\ UNCHANGED <<ttlVars, kmVars, buildVars, restVars, newVars, orderVars>>

\* a holder of a read guard loads the clock, runs KeyMap::get_or_create with
\* create = false, returns Ok(val) and drops the guard
FinishRead(t) ==
    LET p == partition_of(th[t].k)
        r == KeyMap_get_or_create(th[t].seen, [k |-> th[t].k, ts |-> clock],
                                  FALSE)
        l == KeyMap_get_or_create(lin[p], [k |-> th[t].k, ts |-> clock], FALSE)
    IN  /\ th[t].pc = "reading"
        /\ partitions' = [partitions EXCEPT ![p] = r.self]
        /\ lin' = [lin EXCEPT ![p] = l.self]
        /\ lastCall' = [k |-> th[t].k, create |-> FALSE, ret |-> r.ret,
                        before |-> partitions, clock0 |-> clock,
                        linret |-> l.ret, err |-> FALSE]
        /\ th' = [th EXCEPT ![t] = IdleThread]
        /\ UNCHANGED <<lock, clock, hash64, sw, writes, swept, pass>>
        /\ UNCHANGED <<ttlVars, kmVars, buildVars, restVars, newVars, orderVars>>

NextRw ==
    \/ \E t \in Threads, k \in Keys, create \in BOOLEAN : Begin(t, k, create)
    \/ \E t \in Threads, k \in Keys, create \in BOOLEAN : BeginRw(t, k, create)
    \/ \E t \in Threads : Finish(t)
    \/ \E t \in Threads : FinishRead(t)
    \/ \E v \in 0..MaxClock : ClockTick(v)

SpecRw == InitRw /\ [][NextRw]_vars

\* the tasks inside the critical section of partition p
InCS(p) ==
    {t \in Threads : th[t].pc \in {"locked", "reading"}
                     /\ partition_of(th[t].k) = p}
        \cup (IF sw.pc = "lru" /\ sw.i = p THEN {"sweeper"} ELSE {})

\* the tasks inside it with exclusive access
WritersIn(p) == InCS(p) \ Readers(p)

HeldBy(x) == {p \in Partitions : lock[p] = x}

\* C14: no task holds two partition locks at once: a thread inside
\* get_or_create holds the lock of the partition of its key and no other, a
\* thread outside holds none; the sweeper holds the lock of partition i only
\* while it runs KeyMap::lru on it, has released it before it asks for
\* partition i + 1, and holds none between cycles; and the holder is alone in
\* the partition's critical section.
C14_LockDiscipline ==
    /\ \A t \in Threads :
          HeldBy(t) = IF th[t].pc = "locked" THEN {partition_of(th[t].k)}
                      ELSE {}
    /\ HeldBy("sweeper") = IF sw.pc = "lru" THEN {sw.i} ELSE {}
    /\ \A p \in Partitions : Cardinality(InCS(p)) <= 1

\* C14 witness: the sweeper holds the lock of the second partition, having
\* released the first, which a thread now holds.
C14_Witness ==
    /\ sw.pc = "lru" /\ sw.i = 1
    /\ HeldBy("sweeper") = {1}
    /\ lock[0] \in Threads

\* ------------------------------------------------------------ SpecRest
\* Local::new with the clock it read from the system: the fields of Local,
\* and the partitions whose Mutex is poisoned (none)
Local_new(partition_count, ttl, window, sweep, now) ==
    [partition_count |-> partition_count,
     ttl |-> ttl,
     sweep |-> sweep,
     partitions |-> [p \in 0..(partition_count - 1) |-> KeyMap_new(window)],
     poisoned |-> {},
     clock |-> now]

\* Local::get_or_create run without interruption on a Local that no other
\* task is inside: the Local afterwards, the value in Ok(val), and whether
\* the remainder by partition_count panicked ("panic") or inner.lock()
\* returned Err and the call Err(CacheError) ("err")
Local_get_or_create(self, key, create) ==
    IF self.partition_count = 0
    THEN [self |-> self, ret |-> 0, outcome |-> "panic", partition |-> 0]
    ELSE LET p == partition_index(hash64[key], self.partition_count)
             r == KeyMap_get_or_create(self.partitions[p],
                                       [k |-> key, ts |-> self.clock], create)
         IN  IF p \in self.poisoned
             THEN [self |-> self, ret |-> 0, outcome |-> "err", partition |-> p]
             ELSE [self |-> [self EXCEPT !.partitions[p] = r.self],
                   ret |-> r.ret, outcome |-> "ok", partition |-> p]

\* the collection names of the configurations tried, and a name that no
\* linker has
Colls == {"foo", "bar"}

\* a URL parameter that is not there
NoParam == "-"

ReqColls == Colls \cup {"foobar", NoParam}

\* the key of the requests, as one key is all rest.rs's tests use
RestKeys == {"foo"}

ReqKeys == RestKeys \cup {NoParam}

\* the contexts lists tried for linker foo; "baz" names no linker
CtxChoices == {<< >>, <<"bar">>, <<"baz", "foo">>}

\* the linker of the configuration that set name last (HashMap::insert)
LinkOf(cfg, name) ==
    cfg.linkers[Max({i \in 1..Len(cfg.linkers) : cfg.linkers[i].name = name})]

\* ContextLinker::new without the filter on the contexts lists
ContextLinker_new_unfiltered(cfg) ==
    LET names == {cfg.linkers[i].name : i \in 1..Len(cfg.linkers)}
    IN  [contexts |-> [n \in names |->
            [contexts |-> LinkOf(cfg, n).contexts,
             rate |-> LinkOf(cfg, n).rate.count]],
         ttls |-> [n \in names |-> LinkOf(cfg, n).rate.ttl_seconds],
         sweep |-> cfg.sweep_seconds]

\* ContextLinker::new on a parsed ContextLinkerConfig
ContextLinker_new(cfg) ==
    LET names == {cfg.linkers[i].name : i \in 1..Len(cfg.linkers)}
        Defined(ctx) == ctx \in names
    IN  [contexts |-> [n \in names |->
            [contexts |-> SelectSeq(LinkOf(cfg, n).contexts, Defined),
             rate |-> LinkOf(cfg, n).rate.count]],
         ttls |-> [n \in names |-> LinkOf(cfg, n).rate.ttl_seconds],
         sweep |-> cfg.sweep_seconds]

\* the configurations tried: linkers foo and bar, bar as in rest.rs's tests
Configs ==
    {[linkers |-> <<[name |-> "foo", contexts |-> c1,
                     rate |-> [count |-> r1, ttl_seconds |-> Ttl]],
                    [name |-> "bar", contexts |-> <<"foo">>,
                     rate |-> [count |-> MaxRate, ttl_seconds |-> Ttl]]>>,
      sweep_seconds |-> 1] :
        c1 \in CtxChoices, r1 \in 1..MaxRate}

\* val > link.rate, linked > link.rate, and its off-by-one
over_limit_inclusive(x, rate) == x >= rate

\* the comparison that lets one more through
over_limit_late(x, rate) == x > rate + 1

\* the comparison that stops only the first request over the rate
over_limit_once(x, rate) == x = rate + 1

over_limit(x, rate) == x > rate

\* the parameter checks of Handler::handle in the other order
input_error_key_first(coll, key) ==
    IF key = NoParam THEN "missing key parameter"
    ELSE IF coll = NoParam THEN "missing collection parameter"
    ELSE IF coll \notin DOMAIN caches THEN "no cache for collection parameter"
    ELSE ""

\* the 400 responses of Handler::handle, in the order the code checks
input_error(coll, key) ==
    IF coll = NoParam THEN "missing collection parameter"
    ELSE IF key = NoParam THEN "missing key parameter"
    ELSE IF coll \notin DOMAIN caches THEN "no cache for collection parameter"
    ELSE ""

\* Handler::new on a linker: one Local per entry of ttls, its clock as read
\* from the system; partition_count is scaled down from DEFAULT_PARTITIONS
InitRestVars ==
    /\ linkCall = NoLinkCall
    /\ \E cfg \in Configs : linker = ContextLinker_new(cfg)
    /\ \E now \in 0..MaxClock :
          caches = [c \in DOMAIN linker.ttls |->
                      Local_new(PartitionCount, linker.ttls[c], Window,
                                linker.sweep, now)]
    /\ req = [t \in Workers |-> IdleReq]
    /\ resp = NoResp
    /\ served = [c \in DOMAIN linker.ttls |-> [k \in RestKeys |-> 0]]
    /\ rswept = FALSE
    /\ denied = {}

\* the events stored in all caches
RECURSIVE EventsIn(_)
EventsIn(S) ==
    IF S = {} THEN 0
    ELSE LET x == CHOOSE y \in S : TRUE
             m == caches[x[1]].partitions[x[2]]
         IN  TotalOver(m.ttls, DOMAIN m.ttls) + EventsIn(S \ {x})

RestStored == EventsIn((DOMAIN caches) \X Partitions)

\* the response a worker sends; core is the outcome of the last get_or_create
\* the request made ("none" when it made none)
Reply(status, msg, allowed, r, before) ==
    [status |-> status, msg |-> msg, allowed |-> allowed, coll |-> r.coll,
     key |-> r.key, val |-> r.val, linked |-> r.linked, n |-> r.n,
     before |-> before, core |-> r.core]

\* a core error answered with the 200 body of a denied request
on_core_error_denied(msg) == [status |-> 200, msg |-> ""]

\* map_err on the Result of get_or_create: an HTTPError with code
\* INTERNAL_SERVER_ERROR and a message that starts with msg
on_core_error(msg) == [status |-> 500, msg |-> msg]

\* Handler::handle up to the first decision: the parameter checks, the two
\* lookups, get_or_create(key, true) and the comparison of val with the rate
HandleWithin(t, coll, key, limit) ==
    LET r0 == [IdleReq EXCEPT !.coll = coll, !.key = key]
    IN
    /\ req[t].pc = "idle"
    /\ IF input_error(coll, key) # ""
       THEN /\ resp' = Reply(400, input_error(coll, key), FALSE, r0, caches)
            /\ UNCHANGED <<caches, req, served, denied>>
       ELSE IF coll \notin DOMAIN linker.contexts
       THEN /\ resp' = Reply(500, "cannot find linker for collection parameter",
                             FALSE, r0, caches)
            /\ UNCHANGED <<caches, req, served, denied>>
       ELSE LET g == Local_get_or_create(caches[coll], key, TRUE)
                n == IF rswept THEN 0 ELSE served[coll][key] + 1
                r1 == [r0 EXCEPT !.val = g.ret, !.n = n, !.core = g.outcome]
                e == on_core_error("failed to get_or_create val")
            IN  IF g.outcome = "err"
                THEN /\ resp' = Reply(e.status, e.msg, FALSE,
                                      [r0 EXCEPT !.core = "err"], caches)
                     /\ UNCHANGED <<caches, req, served, denied>>
                ELSE /\ RestStored < limit
                     /\ caches' = [caches EXCEPT ![coll] = g.self]
                     /\ served' = [served EXCEPT ![coll][key] = n]
                     /\ IF over_limit(g.ret, linker.contexts[coll].rate)
                        THEN /\ resp' = Reply(200, "", FALSE, r1, caches)
                             /\ req' = req
                             /\ denied' = denied \cup {<<coll, key>>}
                        ELSE /\ resp' = NoResp
                             /\ req' = [req EXCEPT
                                           ![t] = [r1 EXCEPT !.pc = "linked"]]
                             /\ denied' = denied
    /\ UNCHANGED <<linkCall, linker, rswept>>
    /\ UNCHANGED <<ttlVars, kmVars, localVars, newVars, orderVars>>

\* at most MaxReqs events are stored in the caches
Handle(t, coll, key) == HandleWithin(t, coll, key, MaxReqs)

\* a turn of the loop that reads the linked value with create = true
HandleLinkedRead_creating(t) ==
    LET r == req[t]
        ctxs == linker.contexts[r.coll].contexts
        k == ctxs[r.i]
        g == Local_get_or_create(caches[k], r.key, TRUE)
        e == on_core_error("failed to get val")
    IN  /\ r.pc = "linked"
        /\ r.i <= Len(ctxs)
        /\ IF k \notin DOMAIN caches
           THEN /\ caches' = caches
                /\ req' = [req EXCEPT ![t].i = r.i + 1]
                /\ resp' = NoResp
           ELSE IF g.outcome = "err"
           THEN /\ caches' = caches
                /\ req' = [req EXCEPT ![t] = IdleReq]
                /\ resp' = Reply(e.status, e.msg, FALSE,
                                 [r EXCEPT !.core = "err"], caches)
           ELSE /\ caches' = [caches EXCEPT ![k] = g.self]
                /\ req' = [req EXCEPT ![t].i = r.i + 1,
                                      ![t].linked = r.linked + g.ret,
                                      ![t].core = g.outcome]
                /\ resp' = NoResp
        /\ UNCHANGED <<linkCall, linker, served, rswept, denied>>
        /\ UNCHANGED <<ttlVars, kmVars, localVars, newVars, orderVars>>

\* one turn of the loop of get_linked_vals: a linked name with no cache is
\* passed over, the value of any other is read with create = false and
\* added; an Err from the read ends the request
HandleLinkedRead(t) ==
    LET r == req[t]
        ctxs == linker.contexts[r.coll].contexts
        k == ctxs[r.i]
        g == Local_get_or_create(caches[k], r.key, FALSE)
        e == on_core_error("failed to get val")
    IN  /\ r.pc = "linked"
        /\ r.i <= Len(ctxs)
        /\ IF k \notin DOMAIN caches
           THEN /\ caches' = caches
                /\ req' = [req EXCEPT ![t].i = r.i + 1]
                /\ resp' = NoResp
           ELSE IF g.outcome = "err"
           THEN /\ caches' = caches
                /\ req' = [req EXCEPT ![t] = IdleReq]
                /\ resp' = Reply(e.status, e.msg, FALSE,
                                 [r EXCEPT !.core = "err"], caches)
           ELSE /\ caches' = [caches EXCEPT ![k] = g.self]
                /\ req' = [req EXCEPT ![t].i = r.i + 1,
                                      ![t].linked = r.linked + g.ret,
                                      ![t].core = g.outcome]
                /\ resp' = NoResp
        /\ UNCHANGED <<linkCall, linker, served, rswept, denied>>
        /\ UNCHANGED <<ttlVars, kmVars, localVars, newVars, orderVars>>

\* the loop is over: linked is compared with the rate and the 200 is sent
HandleRespond(t) ==
    LET r == req[t]
    IN  /\ r.pc = "linked"
        /\ r.i > Len(linker.contexts[r.coll].contexts)
        /\ resp' = Reply(200, "",
                         ~over_limit(r.linked, linker.contexts[r.coll].rate),
                         r, caches)
        /\ req' = [req EXCEPT ![t] = IdleReq]
        /\ denied' = IF over_limit(r.linked, linker.contexts[r.coll].rate)
                         /\ ~r.stale
                      THEN denied \cup {<<r.coll, r.key>>} ELSE denied
        /\ UNCHANGED <<linkCall, linker, caches, served, rswept>>
        /\ UNCHANGED <<ttlVars, kmVars, localVars, newVars, orderVars>>

\* the clock task of a cache stores the system time, which here has advanced
\* by a second
RestClockTick(c) ==
    /\ c \in DOMAIN caches
    /\ caches[c].clock < MaxClock
    /\ caches' = [caches EXCEPT ![c].clock = @ + 1]
    /\ resp' = NoResp
    /\ UNCHANGED <<linkCall, linker, req, served, rswept, denied>>
    /\ UNCHANGED <<ttlVars, kmVars, localVars, newVars, orderVars>>

\* the sweeper of a cache, in Local::lru, runs KeyMap::lru on one partition
\* with now = clock - ttl as u64 arithmetic gives it (a sweeper that panicked
\* on that subtraction sweeps no more)
RestSweep(c, p) ==
    LET l == caches[c]
        now == IF l.clock >= l.ttl THEN l.clock - l.ttl
               ELSE l.clock - l.ttl + U64Mod
    IN  /\ c \in DOMAIN caches
        /\ p \notin l.poisoned
        /\ caches' = [caches EXCEPT ![c].partitions[p] = KeyMap_lru(@, now)]
        /\ rswept' = TRUE
        /\ served' = [x \in DOMAIN served |-> [k \in RestKeys |-> 0]]
        /\ resp' = NoResp
        /\ denied' = IF caches' = caches THEN denied ELSE {}
        /\ req' = [t \in Workers |->
                      IF caches' # caches /\ req[t].pc = "linked"
                      THEN [req[t] EXCEPT !.stale = TRUE] ELSE req[t]]
        /\ UNCHANGED <<linkCall, linker>>
        /\ UNCHANGED <<ttlVars, kmVars, localVars, newVars, orderVars>>

InitRest ==
    /\ InitRestVars
    /\ InitTTLIdle
    /\ InitKMIdle
    /\ InitLocalIdle
    /\ InitNewIdle
    /\ InitOrderIdle

NextRest ==
    \/ \E t \in Workers, coll \in ReqColls, key \in ReqKeys : Handle(t, coll, key)
    \/ \E t \in Workers : HandleLinkedRead(t)
    \/ \E t \in Workers : HandleRespond(t)
    \/ \E c \in Colls : RestClockTick(c)
    \/ \E c \in Colls, p \in Partitions : RestSweep(c, p)

SpecRest == InitRest /\ [][NextRest]_vars

\* ---------------------------------------------- claims on the handler
\* the rate of the collection of the response just sent
RateOf(c) == linker.contexts[c].rate

\* C15 as stated: in a 200 response allowed is true iff the total returned
\* by get_or_create(key, true) is <= the collection's rate, and nothing else
\* enters the decision.
C15_AsStated ==
    resp.status = 200 => (resp.allowed <=> resp.val <= RateOf(resp.coll))

\* C15 amended: in a 200 response allowed is true iff the total returned by
\* get_or_create(key, true) is <= the collection's rate and the sum of the
\* key's totals read from the collection's linked collections is <= that
\* rate too (the linked totals are not read when the own total is over).
C15_Decision ==
    resp.status = 200 =>
        (resp.allowed <=> (resp.val <= RateOf(resp.coll)
                           /\ resp.linked <= RateOf(resp.coll)))

\* C15 witness: a request within its own rate was denied on the total of a
\* linked collection.
C15_Witness ==
    /\ resp.status = 200
    /\ resp.val <= RateOf(resp.coll)
    /\ resp.linked > RateOf(resp.coll)
    /\ ~resp.allowed

\* no request for the key of the response has reached another collection
FreshElsewhere ==
    \A c \in (DOMAIN served) \ {resp.coll} : served[c][resp.key] = 0

\* C16: from a fresh handler and with no sweep, the requests for one key of
\* one collection with rate L are answered 200, with allowed = true for the
\* first L of them and allowed = false for every later one.
C16_RateSequence ==
    (resp.status # 0 /\ input_error(resp.coll, resp.key) = "") =>
        /\ resp.status = 200
        /\ (~rswept /\ FreshElsewhere) =>
              /\ resp.n = resp.val
              /\ resp.allowed <=> resp.n <= RateOf(resp.coll)

\* C16 witness: with rate 2 and a linked collection, the third request was
\* denied.
C16_Witness ==
    /\ resp.status = 200 /\ ~rswept /\ FreshElsewhere
    /\ RateOf(resp.coll) = 2
    /\ linker.contexts[resp.coll].contexts # << >>
    /\ resp.n = 3
    /\ ~resp.allowed

\* C17: a request without collection gets 400 "missing collection parameter"
\* whether or not it has a key; with a collection and without key, 400
\* "missing key parameter"; with an unknown collection, 400 "no cache for
\* collection parameter"; and in the three cases every cache is left as it
\* was.
C17_InputErrors ==
    resp.status # 0 =>
        /\ resp.coll = NoParam =>
              resp.status = 400 /\ resp.msg = "missing collection parameter"
        /\ (resp.coll # NoParam /\ resp.key = NoParam) =>
              resp.status = 400 /\ resp.msg = "missing key parameter"
        /\ (resp.coll # NoParam /\ resp.key # NoParam
                /\ resp.coll \notin DOMAIN caches) =>
              resp.status = 400
                  /\ resp.msg = "no cache for collection parameter"
        /\ resp.status = 400 => caches = resp.before

\* C17 witness: a request with neither collection nor key was answered with
\* the missing collection, the caches holding events.
C17_Witness ==
    /\ resp.status = 400
    /\ resp.coll = NoParam /\ resp.key = NoParam
    /\ resp.msg = "missing collection parameter"
    /\ RestStored >= 1

\* ------------------------------------------------------------- SpecNew
\* pub const DEFAULT_PARTITIONS, DEFAULT_TTL, DEFAULT_SWEEP
DEFAULT_PARTITIONS == 1024

DEFAULT_TTL == 300

DEFAULT_SWEEP == 60

\* #[derive(Default)] on KeyMap: window is u64::default(), ttls is empty
KeyMap_default == [window |-> 0, ttls |-> EmptyTtls]

\* impl Default for Local (the Mutex build), with the clock it read
Local_default(now) ==
    [partition_count |-> DEFAULT_PARTITIONS,
     ttl |-> DEFAULT_TTL,
     sweep |-> DEFAULT_SWEEP,
     partitions |-> [p \in 0..(DEFAULT_PARTITIONS - 1) |-> KeyMap_default],
     poisoned |-> {},
     clock |-> now]

\* the events stored in the Local last constructed
RECURSIVE BuiltStoredIn(_)
BuiltStoredIn(P) ==
    IF P = {} THEN 0
    ELSE LET p == CHOOSE x \in P : TRUE
             m == built.local.partitions[p]
         IN  TotalOver(m.ttls, DOMAIN m.ttls) + BuiltStoredIn(P \ {p})

\* the partitions of it that the keys hash to
BuiltUsed ==
    IF built.local.partition_count = 0 THEN {}
    ELSE {partition_index(hash64[k], built.local.partition_count) : k \in Keys}

\* a caller constructs a Local with Local::new; every u32 / u64 is accepted
New(partition_count, ttl, window, sweep, now) ==
    /\ built' = [how |-> "new",
                 args |-> [partition_count |-> partition_count, ttl |-> ttl,
                           window |-> window, sweep |-> sweep],
                 local |-> Local_new(partition_count, ttl, window, sweep, now)]
    /\ newCall' = NoNewCall
    /\ UNCHANGED <<ttlVars, kmVars, localVars, restVars, orderVars>>

\* a caller constructs a Local with Local::default
Default(now) ==
    /\ built' = [how |-> "default", args |-> << >>, local |-> Local_default(now)]
    /\ newCall' = NoNewCall
    /\ UNCHANGED <<ttlVars, kmVars, localVars, restVars, orderVars>>

\* the clock of the constructed Local is stored
NewClockTick(v) ==
    /\ built.how # "none"
    /\ v # built.local.clock
    /\ built' = [built EXCEPT !.local.clock = v]
    /\ newCall' = NoNewCall
    /\ UNCHANGED <<ttlVars, kmVars, localVars, restVars, orderVars>>

\* a caller runs get_or_create on the constructed Local; a panic unwinds the
\* caller before any lock is taken and leaves the Local as it was
NewGetOrCreate(k, create) ==
    LET r == Local_get_or_create(built.local, k, create)
    IN  /\ built.how # "none"
        /\ create => BuiltStoredIn(BuiltUsed) < MaxWrites
        /\ built' = [built EXCEPT !.local = r.self]
        /\ newCall' = [k |-> k, outcome |-> r.outcome, partition |-> r.partition]
        /\ UNCHANGED <<ttlVars, kmVars, localVars, restVars, orderVars>>

InitNew ==
    /\ InitNewIdle
    /\ InitTTLIdle
    /\ InitKMIdle
    /\ InitLocalIdle
    /\ InitRestIdle
    /\ InitOrderIdle

NextNew ==
    \/ \E pc \in 0..PartitionCount, ttl \in 0..Ttl, window \in 0..MaxWindow,
          sweep \in 1..2, now \in 0..MaxClock : New(pc, ttl, window, sweep, now)
    \/ \E now \in 0..MaxClock : Default(now)
    \/ \E v \in 0..MaxClock : NewClockTick(v)
    \/ \E k \in Keys, create \in BOOLEAN : NewGetOrCreate(k, create)

SpecNew == InitNew /\ [][NextNew]_vars

\* C18 as stated: a Local with partition_count = 0 is never constructed
\* (construction is rejected), every constructed Local has partition_count > 0
\* equal to its number of partitions, and get_or_create never takes a
\* remainder by zero.
C18_AsStated ==
    /\ built.how # "none" =>
          /\ built.local.partition_count > 0
          /\ built.local.partition_count
                = Cardinality(DOMAIN built.local.partitions)
    /\ newCall.outcome # "panic"

\* C19 as stated: Local::default has partition_count 1024, ttl 300, sweep 60
\* and window 60 in the KeyMap of every partition, so that increments of a key
\* less than 60 apart share one bucket; Local::new(pc, ttl, window, sweep)
\* stores pc and ttl and gives the KeyMap of every partition the window.
C19_AsStated ==
    /\ built.how = "default" =>
          /\ built.local.partition_count = 1024
          /\ built.local.ttl = 300
          /\ built.local.sweep = 60
          /\ \A p \in DOMAIN built.local.partitions :
                /\ built.local.partitions[p].window = 60
                /\ \A k \in DOMAIN built.local.partitions[p].ttls :
                      Cardinality(DOMAIN built.local.partitions[p].ttls[k].vals)
                          = 1
    /\ built.how = "new" =>
          /\ built.local.partition_count = built.args.partition_count
          /\ built.local.ttl = built.args.ttl
          /\ \A p \in DOMAIN built.local.partitions :
                built.local.partitions[p].window = built.args.window

\* clock - ttl, saturating at 0
SaturatingCutoff == IF clock >= Ttl THEN clock - Ttl ELSE 0

\* C20 as stated: the sweeper's cutoff is clock - ttl saturating at 0: the
\* sweeper never panics on the subtraction, the cutoff it holds (the clock
\* not having been stored since it was loaded) is the saturated one, and a
\* pass made with clock < ttl removes no bucket.
C20_AsStated ==
    /\ sw.pc # "dead"
    /\ (sw.pc \in {"lock", "lru"} /\ pass.st = "run") =>
          sw.now = SaturatingCutoff
    /\ (pass.st = "done" /\ clock < Ttl) => partitions = pass.snap

\* ------------------------------------------- further claims on KeyMap
\* C21: in every state of a KeyMap reached by get_or_create and lru calls in
\* any order, every stored series has at least one bucket and every bucket
\* count is at least 1: no key is left with an empty series once a call has
\* returned.
C21_NonEmptySeries ==
    \A k \in DOMAIN km.ttls :
        /\ DOMAIN km.ttls[k].vals # {}
        /\ \A b \in DOMAIN km.ttls[k].vals : km.ttls[k].vals[b] >= 1

\* C21 witness: an lru emptied the series of one key, which went, and took
\* some but not all buckets of another key, which stayed.
C21_Witness ==
    /\ kmCall.op = "lru"
    /\ \E k \in DOMAIN kmPrev.ttls : k \notin DOMAIN km.ttls
    /\ \E k \in DOMAIN km.ttls :
          /\ BucketsOf(km, k) < BucketsOf(kmPrev, k)
          /\ BucketsOf(km, k) >= 1

\* the buckets of k in self that are not older than the cutoff
KeptBuckets(self, k, cutoff) == {b \in DOMAIN self.ttls[k].vals : b >= cutoff}

\* C22: KeyMap::lru(cutoff) removes exactly the keys all of whose bucket keys
\* are below the cutoff; every other key stays, with exactly its buckets of
\* key >= cutoff and their counts, so that its total is the sum of those
\* counts, whatever the series of the other keys are.
C22_SweepExact ==
    kmCall.op = "lru" =>
        LET cutoff == kmCall.ts
        IN  /\ DOMAIN km.ttls =
                  {k \in DOMAIN kmPrev.ttls : KeptBuckets(kmPrev, k, cutoff) # {}}
            /\ \A k \in DOMAIN km.ttls :
                  /\ DOMAIN km.ttls[k].vals = KeptBuckets(kmPrev, k, cutoff)
                  /\ \A b \in DOMAIN km.ttls[k].vals :
                        km.ttls[k].vals[b] = kmPrev.ttls[k].vals[b]
                  /\ TotalOf(km, k) =
                        SumOver(kmPrev.ttls[k].vals, KeptBuckets(kmPrev, k, cutoff))

\* C22 witness: the cutoff is a bucket key of a key that stayed with a
\* smaller total, while the other key, all of it older, was removed.
C22_Witness ==
    /\ kmCall.op = "lru"
    /\ \E k \in DOMAIN kmPrev.ttls :
          /\ KeptBuckets(kmPrev, k, kmCall.ts) = {}
          /\ k \notin DOMAIN km.ttls
    /\ \E k \in DOMAIN km.ttls :
          /\ kmCall.ts \in DOMAIN km.ttls[k].vals
          /\ TotalOf(km, k) < TotalOf(kmPrev, k)
          /\ TotalOf(km, k) >= 1

\* ------------------------------------------- further claims on Local
\* the buckets stored for k when the last call was made
BucketsBefore(k) ==
    LET m == lastCall.before[partition_of(k)]
    IN  IF k \in DOMAIN m.ttls THEN DOMAIN m.ttls[k].vals ELSE {}

\* C23: the value get_or_create returns on a read is the sum of the counts of
\* every bucket stored for the key at that moment, the buckets with a key
\* below clock - ttl that no sweep has removed yet included: it is not
\* filtered by age.
C23_ReadCountsAll ==
    ReadReturned =>
        lastCall.ret =
            IF BucketsBefore(lastCall.k) = {} THEN 0
            ELSE SumOver(lastCall.before[partition_of(lastCall.k)]
                                 .ttls[lastCall.k].vals,
                         BucketsBefore(lastCall.k))

\* C23 witness: a read at a clock of at least ttl returned 2 for a key with
\* one bucket below clock - ttl and one bucket not below it.
C23_Witness ==
    /\ ReadReturned
    /\ lastCall.clock0 >= Ttl
    /\ \E b \in BucketsBefore(lastCall.k) : b < lastCall.clock0 - Ttl
    /\ \E b \in BucketsBefore(lastCall.k) : b >= lastCall.clock0 - Ttl
    /\ lastCall.ret = 2

\* ----------------------------------------------------------- SpecSweep
\* The sweeper beside one request thread, with guard holders that may panic
\* as in SpecPoison, and with the scheduling the runtime gives: the sweeper
\* task is polled again and again, a thread inside get_or_create leaves it,
\* and a lock that keeps becoming free is obtained.
SweepThreads == {"t1"}

\* partition.lock() returns Err for a poisoned mutex: the if let does not
\* match, the partition is left as it is and the loop goes on
SweepSkip ==
    /\ sw.pc = "lock"
    /\ LockFree(sw.i)
    /\ lock_result(sw.i) = "Err"
    /\ sw' = IF sw.i + 1 < PartitionCount
             THEN [sw EXCEPT !.pc = "load", !.i = sw.i + 1]
             ELSE SleepingSweeper
    /\ pass' = NoPass
    /\ lastCall' = NoLocalCall
    /\ UNCHANGED <<partitions, lock, clock, hash64, th, writes, swept, lin>>
    /\ UNCHANGED <<ttlVars, kmVars, buildVars, restVars, newVars, orderVars>>

NextSweep ==
    \/ \E t \in SweepThreads, k \in Keys, create \in BOOLEAN : Begin(t, k, create)
    \/ \E t \in SweepThreads : Finish(t)
    \/ \E t \in SweepThreads : Panic(t)
    \/ \E t \in SweepThreads, k \in Keys, create \in BOOLEAN : Fail(t, k, create)
    \/ \E v \in 0..MaxClock : ClockTick(v)
    \/ SweepTick
    \/ SweepLoad
    \/ SweepLock
    \/ SweepSkip
    \/ SweepLru

FairSweep ==
    /\ WF_vars(SweepTick)
    /\ WF_vars(SweepLoad)
    /\ SF_vars(SweepLock \/ SweepSkip)
    /\ WF_vars(SweepLru)
    /\ \A t \in SweepThreads : WF_vars(Finish(t) \/ Panic(t))

SpecSweep == Init /\ [][NextSweep]_vars /\ FairSweep

\* bucket b of key k is stored and its key is below clock - ttl
Expired(k, b) ==
    /\ k \in DOMAIN partitions[partition_of(k)].ttls
    /\ b \in DOMAIN partitions[partition_of(k)].ttls[k].vals
    /\ clock >= Ttl
    /\ b < clock - Ttl

\* bucket b of key k is not stored
Gone(k, b) ==
    \/ k \notin DOMAIN partitions[partition_of(k)].ttls
    \/ b \notin DOMAIN partitions[partition_of(k)].ttls[k].vals

\* C24 as stated: with the sweeper started and scheduled fairly, a bucket
\* whose key stays below clock - ttl, in a partition whose lock can be
\* obtained, is eventually removed.
C24_AsStated ==
    \A k \in Keys : \A b \in 0..MaxClock :
        Expired(k, b) ~>
            (Gone(k, b) \/ ~Expired(k, b) \/ partition_of(k) \in poisoned)

\* the sweeper goes on after partition sw.i: to the next partition of the
\* cycle, or to sleep until the next tick when sw.i was the last one
GoesOn ==
    IF sw.i + 1 < PartitionCount
    THEN sw'.pc = "load" /\ sw'.i = sw.i + 1
    ELSE sw'.pc = "sleep"

\* C25 as stated: the sweeper task never ends. No step of it ends the task,
\* whatever the clock and the ttl are, and when the lock of the partition it
\* has reached is poisoned it leaves that partition as it is and goes on with
\* the rest of the cycle and with later cycles.
C25_AsStated ==
    [][/\ sw'.pc # "dead"
       /\ (sw.pc = "lock" /\ sw.i \in poisoned /\ sw' # sw) =>
             (partitions' = partitions /\ GoesOn)]_vars

\* ----------------------------------------------------------- SpecOrder
\* get_or_create with the clock value at the moment the guard was obtained
\* kept beside each call, under a clock that is stored with increasing values
\* (so that the values it held before a moment are those not above the value
\* it holds at that moment).
BeginAt(t, k, create) ==
    /\ Acquire(t, k, create)
    /\ atLock' = [atLock EXCEPT ![t] = clock]
    /\ lastAt' = 0
    /\ UNCHANGED monoVars

FinishAt(t) ==
    /\ Return(t)
    /\ lastAt' = atLock[t]
    /\ atLock' = [atLock EXCEPT ![t] = 0]
    /\ UNCHANGED monoVars

NextOrder ==
    \/ \E t \in Threads, k \in Keys, create \in BOOLEAN : BeginAt(t, k, create)
    \/ \E t \in Threads : FinishAt(t)
    \/ clock < MaxClock /\ ClockTick(clock + 1)

SpecOrder == Init /\ [][NextOrder]_vars

\* the series of the last call's key before the call (a new one if absent)
SeriesBefore ==
    LET m == lastCall.before[partition_of(lastCall.k)]
    IN  IF lastCall.k \in DOMAIN m.ttls THEN m.ttls[lastCall.k]
        ELSE TTLValues_new(m.window)

\* the series of the last call's key now
SeriesAfter == partitions[partition_of(lastCall.k)].ttls[lastCall.k]

\* the last call was a get_or_create(k, true) that returned Ok
WriteReturned == lastCall.k # "" /\ lastCall.create /\ ~lastCall.err

\* C26 as stated: the timestamp an upsert is made with was loaded before the
\* partition lock was obtained: it is one of the values the clock held up to
\* that moment.
C26_AsStated ==
    WriteReturned =>
        \E ts \in 0..lastAt : SeriesAfter = inc(SeriesBefore, ts)

\* C26 amended: the partition is selected, its lock is obtained, and then the
\* clock is loaded: the upsert is made with the value the clock holds while
\* the guard is held, which is never older than the value it held when the
\* lock was obtained.
C26_ClockUnderLock ==
    WriteReturned =>
        /\ SeriesAfter = inc(SeriesBefore, lastCall.clock0)
        /\ lastAt <= lastCall.clock0
        /\ lastCall.clock0 = clock

\* C26 witness: the clock was stored between the moment a writer got the lock
\* and its upsert, and the upsert opened a bucket at the newer value beside
\* an older bucket.
C26_Witness ==
    /\ WriteReturned
    /\ lastAt < lastCall.clock0
    /\ lastCall.clock0 \in DOMAIN SeriesAfter.vals
    /\ lastCall.clock0 \notin DOMAIN SeriesBefore.vals
    /\ DOMAIN SeriesBefore.vals # {}

\* ---------------------------------------------------- claims on the clock
\* C27 as stated: Local.clock never decreases, and the step that stores it is
\* the clock task's alone: no request thread and no sweeper step changes it.
C27_AsStated ==
    [][/\ clock' >= clock
       /\ clock' # clock => (th' = th /\ sw' = sw /\ partitions' = partitions)]_vars

\* ------------------------------------------------------------ SpecPart
\* A Local constructed with 1..MaxParts partitions, for keys whose hashes
\* range over the whole of u64, driven by get_or_create calls and clock stores.
InitPart ==
    /\ InitNewIdle
    /\ InitTTLIdle
    /\ InitKMIdle
    /\ InitLocalQuiet
    /\ hash64 \in [Keys -> 0..(U64Mod - 1)]
    /\ InitRestIdle
    /\ InitOrderIdle

NextPart ==
    \/ \E pc \in 1..MaxParts : New(pc, Ttl, Window, 1, 0)
    \/ \E v \in 0..1 : NewClockTick(v)
    \/ \E k \in Keys, create \in BOOLEAN : NewGetOrCreate(k, create)

SpecPart == InitPart /\ [][NextPart]_vars

\* the partitions of the constructed Local that hold key k
HeldIn(k) ==
    {p \in DOMAIN built.local.partitions :
        k \in DOMAIN built.local.partitions[p].ttls}

\* C28: for every partition_count > 0, a power of two or not, the index
\* (hash64(key) as u32) % partition_count is below partition_count and is the
\* one every call on the key uses, so that a key is stored in at most one
\* partition, the one its hash selects.
C28_PartitionStable ==
    built.how # "none" =>
        LET pc == built.local.partition_count
        IN  /\ \A k \in Keys :
                  /\ partition_index(hash64[k], pc) \in 0..(pc - 1)
                  /\ HeldIn(k) \subseteq {partition_index(hash64[k], pc)}
            /\ newCall.k # "" =>
                  /\ newCall.outcome = "ok"
                  /\ newCall.partition \in DOMAIN built.local.partitions
                  /\ newCall.partition = partition_index(hash64[newCall.k], pc)

\* C28 witness: with three partitions and a hash above the range of u32 whose
\* low bits select another partition than the whole hash would, the second
\* create on the key found the first one's bucket, at another clock value,
\* and the other key's hash selects another partition.
C28_Witness ==
    /\ built.how = "new"
    /\ built.local.partition_count = 3
    /\ newCall.k # ""
    /\ hash64[newCall.k] >= U32Mod
    /\ newCall.partition # hash64[newCall.k] % 3
    /\ HeldIn(newCall.k) = {newCall.partition}
    /\ TotalOf(built.local.partitions[newCall.partition], newCall.k) = 2
    /\ built.local.clock = 1
    /\ \E k \in Keys : partition_index(hash64[k], 3) # newCall.partition

\* ------------------------------------- the handler over poisoned caches
\* a thread panicked while it held the Mutex of partition p of cache c: the
\* Mutex is poisoned from then on
RestPoison(c, p) ==
    /\ c \in DOMAIN caches
    /\ p \notin caches[c].poisoned
    /\ caches' = [caches EXCEPT ![c].poisoned = @ \cup {p}]
    /\ resp' = NoResp
    /\ UNCHANGED <<linkCall, linker, req, served, rswept, denied>>
    /\ UNCHANGED <<ttlVars, kmVars, localVars, newVars, orderVars>>

NextRestErr ==
    \/ \E t \in Workers, coll \in ReqColls, key \in ReqKeys : Handle(t, coll, key)
    \/ \E t \in Workers : HandleLinkedRead(t)
    \/ \E t \in Workers : HandleRespond(t)
    \/ \E c \in Colls, p \in Partitions : RestPoison(c, p)

SpecRestErr == InitRest /\ [][NextRestErr]_vars

\* the messages of the two map_err closures
CoreErrorMsgs == {"failed to get_or_create val", "failed to get val"}

\* C29: when get_or_create of the core returns an error, for the requested
\* collection or for a linked collection that is read, the response has
\* status 500 and one of the two error messages and is never a 200
\* allow/deny body; a 200 body is sent only after calls that all returned Ok.
C29_CoreErrorIs500 ==
    /\ resp.core = "err" =>
          (resp.status = 500 /\ resp.msg \in CoreErrorMsgs /\ ~resp.allowed)
    /\ resp.status = 200 => resp.core = "ok"

\* a linked read failed on a poisoned partition after the requested
\* collection had counted the request, and the response is the 500
C29_Witness ==
    /\ resp.core = "err"
    /\ resp.status = 500
    /\ resp.msg = "failed to get val"
    /\ resp.val >= 1
    /\ \E c \in DOMAIN caches : caches[c].poisoned # {}

\* ------------------------------------- timestamps behind the greatest key
\* the last call was an inc with a timestamp below the greatest key
BackwardInc ==
    /\ tvCall.op = "inc"
    /\ DOMAIN tvPrev.vals # {}
    /\ tvCall.arg < Max(DOMAIN tvPrev.vals)

\* every timestamp is compared with the key last and with no other
ComparedAgainst(last) ==
    \A x \in 0..MaxTs :
        find_bucket(tv, x) = IF abs_diff(x, last) < tv.window THEN last ELSE x

\* C30 as stated: inc(t) with t below the greatest key is compared with the
\* greatest key only; when t is less than a window below it the greatest
\* bucket grows and its key stays, and when t is a window or more below it a
\* new bucket keyed t is created, the greatest key stays and later incs are
\* still compared with it.
C30_AsStated ==
    BackwardInc =>
        LET t == tvCall.arg
            last == Max(DOMAIN tvPrev.vals)
        IN  /\ Max(DOMAIN tv.vals) = last
            /\ ComparedAgainst(last)
            /\ IF last - t < tvPrev.window
               THEN Coalesced
               ELSE /\ t \notin DOMAIN tvPrev.vals
                    /\ DOMAIN tv.vals = (DOMAIN tvPrev.vals) \cup {t}
                    /\ tv.vals[t] = 1
                    /\ OthersUnchanged(t)

\* C30 amended: as stated, except that a timestamp a window or more below
\* the greatest key adds one to the bucket keyed t: a new bucket (t, 1) when
\* no bucket had key t, and one more in the older bucket keyed t otherwise.
C30_BackwardInc ==
    BackwardInc =>
        LET t == tvCall.arg
            last == Max(DOMAIN tvPrev.vals)
        IN  /\ Max(DOMAIN tv.vals) = last
            /\ ComparedAgainst(last)
            /\ IF last - t < tvPrev.window
               THEN Coalesced
               ELSE /\ DOMAIN tv.vals = (DOMAIN tvPrev.vals) \cup {t}
                    /\ tv.vals[t] =
                          (IF t \in DOMAIN tvPrev.vals
                           THEN tvPrev.vals[t] ELSE 0) + 1
                    /\ OthersUnchanged(t)

\* C30 witness: a timestamp a window or more below the greatest key and less
\* than a window from an older key started a bucket of its own between them.
C30_Witness ==
    /\ BackwardInc
    /\ tvCall.arg + tvPrev.window <= Max(DOMAIN tvPrev.vals)
    /\ tvCall.arg \notin DOMAIN tvPrev.vals
    /\ \E k \in DOMAIN tvPrev.vals : abs_diff(tvCall.arg, k) < tvPrev.window
    /\ tv.vals[tvCall.arg] = 1
    /\ Max(DOMAIN tv.vals) = Max(DOMAIN tvPrev.vals)

\* ----------------------------------------------------------- SpecLinker
\* the contexts lists of the linkers tried: empty, a defined name, an
\* undefined name before and between defined ones, a name twice
CtxLists == {<< >>, <<"bar">>, <<"baz", "foo">>, <<"bar", "foo">>,
             <<"foo", "baz", "bar">>, <<"foo", "foo">>}

\* the ContextLinkerSub values tried
LinkerSubs ==
    [name : Colls, contexts : CtxLists,
     rate : [count : 1..MaxRate, ttl_seconds : Ttl..(Ttl + 1)]]

\* the documents handed to ContextLinker::new: a ContextLinkerConfig in JSON
\* (names may repeat), text that is not JSON, and JSON that lacks a field
Docs ==
    {[kind |-> "config", linkers |-> l, sweep_seconds |-> 1] :
        l \in UNION {[1..n -> LinkerSubs] : n \in 0..MaxLinkers}}
    \cup {[kind |-> k, linkers |-> << >>, sweep_seconds |-> 0] :
            k \in {"malformed", "incomplete"}}

\* serde_json::from_str::<ContextLinkerConfig>: Err unless the text is JSON
\* with every field of the struct
from_str(doc) ==
    IF doc.kind = "config"
    THEN [ok |-> TRUE,
          cfg |-> [linkers |-> doc.linkers, sweep_seconds |-> doc.sweep_seconds]]
    ELSE [ok |-> FALSE, cfg |-> [linkers |-> << >>, sweep_seconds |-> 0]]

\* ContextLinker::new(val): the ? on from_str returns the error before any
\* linker is made
LinkerNew ==
    LET parsed == from_str(linkCall.doc)
    IN  /\ linkCall.outcome = "none"
        /\ linkCall.doc.kind # "none"
        /\ IF parsed.ok
           THEN /\ linker' = ContextLinker_new(parsed.cfg)
                /\ linkCall' = [linkCall EXCEPT !.outcome = "ok"]
           ELSE /\ linker' = linker
                /\ linkCall' = [linkCall EXCEPT !.outcome = "err"]
        /\ UNCHANGED <<caches, req, resp, served, rswept, denied>>
        /\ UNCHANGED <<ttlVars, kmVars, localVars, newVars, orderVars>>

InitLinker ==
    /\ \E d \in Docs : linkCall = [doc |-> d, outcome |-> "none"]
    /\ linker = NoLinker
    /\ caches = <<>>
    /\ req = [t \in Workers |-> IdleReq]
    /\ resp = NoResp
    /\ served = <<>>
    /\ rswept = FALSE
    /\ denied = {}
    /\ InitTTLIdle
    /\ InitKMIdle
    /\ InitLocalIdle
    /\ InitNewIdle
    /\ InitOrderIdle

NextLinker == LinkerNew

SpecLinker == InitLinker /\ [][NextLinker]_vars

\* the names of the linkers of the document
DocNames ==
    {linkCall.doc.linkers[i].name : i \in 1..Len(linkCall.doc.linkers)}

\* the entries of a contexts list that name a linker of the document, in
\* the order of the list
RECURSIVE KeptOf(_)
KeptOf(s) ==
    IF s = << >> THEN << >>
    ELSE IF Head(s) \in DocNames THEN <<Head(s)>> \o KeptOf(Tail(s))
    ELSE KeptOf(Tail(s))

\* the entry of the linker records what the i-th linker of the document says
RecordsLinker(i) ==
    LET l == linkCall.doc.linkers[i]
    IN  /\ linker.contexts[l.name].contexts = KeptOf(l.contexts)
        /\ linker.contexts[l.name].rate = l.rate.count
        /\ linker.ttls[l.name] = l.rate.ttl_seconds

\* the error case and the key sets
LinkerShape ==
    /\ linkCall.outcome = "err" <=> linkCall.doc.kind \in {"malformed", "incomplete"}
    /\ linkCall.outcome = "err" => linker = NoLinker
    /\ linkCall.outcome = "ok" =>
          /\ DOMAIN linker.contexts = DocNames
          /\ DOMAIN linker.ttls = DocNames
          /\ linker.sweep = linkCall.doc.sweep_seconds

\* C31 as stated: ContextLinker::new keeps, for each linker, the entries of
\* its contexts list that name a linker of the same configuration, in their
\* order, records rate = count for each linker and one ttls entry per linker
\* name, so that contexts and ttls have the same keys; invalid JSON gives
\* an error and no linker.
C31_AsStated ==
    linkCall.outcome # "none" =>
        /\ LinkerShape
        /\ linkCall.outcome = "ok" =>
              \A i \in 1..Len(linkCall.doc.linkers) : RecordsLinker(i)

\* the position of the last linker of the document with the name n
LastNamed(n) ==
    Max({i \in 1..Len(linkCall.doc.linkers) : linkCall.doc.linkers[i].name = n})

\* C31 amended: as stated, with "each linker" being, for every name, the
\* last linker of the configuration that has the name: when a name occurs
\* more than once the later linker replaces what the earlier one recorded.
C31_LastLinkerWins ==
    linkCall.outcome # "none" =>
        /\ LinkerShape
        /\ linkCall.outcome = "ok" =>
              \A n \in DocNames : RecordsLinker(LastNamed(n))

\* C31 witness: two linkers with different names, the first with an
\* undefined name between two defined ones in its contexts list.
C31_Witness ==
    /\ linkCall.outcome = "ok"
    /\ Len(linkCall.doc.linkers) = 2
    /\ DocNames = Colls
    /\ linkCall.doc.linkers[1].contexts = <<"foo", "baz", "bar">>
    /\ linker.contexts[linkCall.doc.linkers[1].name].contexts = <<"foo", "bar">>
    /\ DOMAIN linker.ttls = DOMAIN linker.contexts

\* ------------------------------------------------------------- SpecMono
\* Local::get_or_create followed step by step, under a clock task whose
\* stores never go down: the guard is obtained, the clock is loaded into
\* Key.ts, KeyMap::get_or_create runs and the guard is dropped. The window
\* is Window + 1, so that keys can be closer than a window.
MonoWindow == Window + 1

MonoClock == MaxClock + 1

InitMonoVars ==
    /\ partitions = [p \in Partitions |-> KeyMap_new(MonoWindow)]
    /\ lock = [p \in Partitions |-> "none"]
    /\ clock \in 0..MonoClock
    /\ hash64 \in Placements
    /\ th = [t \in Threads |-> IdleThread]
    /\ sw = SleepingSweeper
    /\ lastCall = NoLocalCall
    /\ writes = [k \in Keys |-> 0]
    /\ swept = FALSE
    /\ pass = NoPass
    /\ lin = partitions
    /\ poisoned = {}
    /\ target_os = "macos"

InitMono ==
    /\ InitMonoVars
    /\ InitTTLIdle
    /\ InitKMIdle
    /\ InitRestIdle
    /\ InitNewIdle
    /\ InitOrderIdle

\* inner.lock() returns the guard
MonoAcquire(t, k, create) ==
    /\ AcquireWithin(t, k, create, MaxWrites + 1)
    /\ UNCHANGED orderVars

\* the clock loaded by a thread that does not hold the guard yet
MonoLoad_before_lock(t) ==
    /\ th[t].pc = "idle"
    /\ loaded[t] = -1
    /\ loaded' = [loaded EXCEPT ![t] = clock]
    /\ UNCHANGED <<atLock, lastAt, stamps>>
    /\ UNCHANGED <<ttlVars, kmVars, localVars, restVars, newVars>>

\* self.clock.load(Relaxed), evaluated for the Key literal with the guard held
MonoLoad(t) ==
    /\ th[t].pc = "locked"
    /\ loaded[t] = -1
    /\ loaded' = [loaded EXCEPT ![t] = clock]
    /\ UNCHANGED <<atLock, lastAt, stamps>>
    /\ UNCHANGED <<ttlVars, kmVars, localVars, restVars, newVars>>

\* lock.get_or_create(Key {k, ts}, create) and the return
MonoReturn(t) ==
    /\ loaded[t] # -1
    /\ ReturnAt(t, loaded[t])
    /\ loaded' = [loaded EXCEPT ![t] = -1]
    /\ stamps' = IF th[t].create
                 THEN [stamps EXCEPT ![th[t].k] = Append(@, loaded[t])]
                 ELSE stamps
    /\ UNCHANGED <<atLock, lastAt>>

\* the clock task stores a later second
MonoTick == clock < MonoClock /\ ClockTick(clock + 1)

NextMono ==
    \/ \E t \in Threads, k \in Keys, create \in BOOLEAN : MonoAcquire(t, k, create)
    \/ \E t \in Threads : MonoLoad(t)
    \/ \E t \in Threads : MonoReturn(t)
    \/ MonoTick

SpecMono == InitMono /\ [][NextMono]_vars

\* the timestamps a key's series was incremented with never go down
NonDecreasing(s) == \A i, j \in 1..Len(s) : i < j => s[i] <= s[j]

\* the series of key k, if it has one
SeriesOf(k) == partitions[partition_of(k)].ttls[k]

\* C32: while the clock never decreases, under every interleaving of
\* get_or_create calls and clock stores the timestamps applied to one key's
\* series are non-decreasing in the order in which the calls held the
\* partition lock (the clock is loaded with the lock held), and any two
\* bucket keys of a key are at least a window apart in every reachable state.
C32_MonotoneStamps ==
    \A k \in Keys :
        /\ NonDecreasing(stamps[k])
        /\ k \in DOMAIN partitions[partition_of(k)].ttls => Spaced(SeriesOf(k))

\* C32 witness: three increments of one key, the last with a timestamp
\* loaded before a clock store and applied after it, and two buckets a
\* window or more apart.
C32_Witness ==
    \E k \in Keys :
        /\ Len(stamps[k]) = 3
        /\ stamps[k][1] < stamps[k][3]
        /\ lastCall.k = k /\ lastCall.create
        /\ stamps[k][3] < clock
        /\ k \in DOMAIN partitions[partition_of(k)].ttls
        /\ Cardinality(DOMAIN SeriesOf(k).vals) = 2
        /\ get(SeriesOf(k)) = 3

\* --------------------------------------------------- frame of a write
\* the step is the return of a get_or_create(k, true) of thread t
WriteStep(t) == th[t].pc = "locked" /\ th[t].create /\ th'[t].pc = "idle"

\* of the maps m and n, n differs from m in the series of key k at most
OnlyKeyChanged(m, n, k) ==
    /\ n.window = m.window
    /\ (DOMAIN n.ttls) \ {k} = (DOMAIN m.ttls) \ {k}
    /\ \A j \in (DOMAIN m.ttls) \ {k} : n.ttls[j] = m.ttls[j]

\* the step is the sweeper's p.lru(now) on partition sw.i
SweepStep == sw.pc = "lru" /\ sw' # sw

\* C33: get_or_create(k, true) changes only the series of key k in the
\* partition selected by k's hash: the series of every other key, in that
\* partition or another, and the clock are unchanged (partition_count, ttl
\* and sweep are fields nothing assigns: PartitionCount, Ttl and the sweeper's
\* period here); a sweep of partition i leaves every partition j # i
\* unchanged.
C33_WriteFrame ==
    [][/\ \A t \in Threads :
             WriteStep(t) =>
                 /\ \A p \in Partitions \ {partition_of(th[t].k)} :
                       partitions'[p] = partitions[p]
                 /\ OnlyKeyChanged(partitions[partition_of(th[t].k)],
                                   partitions'[partition_of(th[t].k)], th[t].k)
                 /\ th[t].k \in DOMAIN partitions'[partition_of(th[t].k)].ttls
                 /\ clock' = clock
                 /\ hash64' = hash64
       /\ SweepStep =>
             \A j \in Partitions \ {sw.i} : partitions'[j] = partitions[j]]_vars

\* C33 witness: a write created a key in a partition that held the other
\* key, whose series is as it was, while the sweeper waited for the guard
\* of that partition.
C33_Witness ==
    /\ WriteReturned
    /\ lastCall.k \notin DOMAIN lastCall.before[partition_of(lastCall.k)].ttls
    /\ \E j \in Keys \ {lastCall.k} :
          /\ partition_of(j) = partition_of(lastCall.k)
          /\ j \in DOMAIN lastCall.before[partition_of(j)].ttls
          /\ partitions[partition_of(j)].ttls[j]
                = lastCall.before[partition_of(j)].ttls[j]
    /\ sw.pc = "lock"
    /\ sw.i = partition_of(lastCall.k)

\* ------------------------------------------------------------- SpecDeny
\* the handler with one more request than SpecRest lets in, so that a request
\* denied for what its linked collections hold can be followed by another;
\* the requests are those that reach get_or_create
DenyHandle(t, coll, key) == HandleWithin(t, coll, key, MaxReqs + 1)

NextDeny ==
    \/ \E t \in Workers, coll \in Colls, key \in RestKeys :
          DenyHandle(t, coll, key)
    \/ \E t \in Workers : HandleLinkedRead(t)
    \/ \E t \in Workers : HandleRespond(t)
    \/ \E c \in Colls : RestClockTick(c)
    \/ \E c \in Colls, p \in Partitions : RestSweep(c, p)

SpecDeny == InitRest /\ [][NextDeny]_vars

\* the total of key k in the cache of collection c, in the caches cs
KeyTotalIn(cs, c, k) ==
    LET l == cs[c]
    IN  TotalOf(l.partitions[partition_index(hash64[k], l.partition_count)], k)

\* the step is worker t's call of get_or_create(key, true) returning Ok
CountStep(t) ==
    req[t].pc = "idle" /\ (req'[t].pc = "linked" \/ resp'.status = 200)

\* C34: a request that reaches get_or_create for a known collection and key
\* raises the key's total by exactly one whether it is then allowed or
\* denied, and the value it compares is that total; once a request for the
\* key of a collection has been denied, every later request for it that is
\* answered is denied, until a sweep removes a bucket.
C34_DeniedStays ==
    [][/\ \A t \in Workers :
             CountStep(t) =>
                 LET c == IF resp'.status = 200 THEN resp'.coll ELSE req'[t].coll
                     k == IF resp'.status = 200 THEN resp'.key ELSE req'[t].key
                     v == IF resp'.status = 200 THEN resp'.val ELSE req'[t].val
                 IN  /\ KeyTotalIn(caches', c, k) = KeyTotalIn(caches, c, k) + 1
                     /\ v = KeyTotalIn(caches', c, k)
       /\ (resp'.status = 200 /\ <<resp'.coll, resp'.key>> \in denied)
             => ~resp'.allowed]_vars

\* C34 witness: a request was denied for the total of a linked collection
\* while its own total was within the rate, and the next request for the
\* key was denied too, with no sweep in between.
C34_Witness ==
    /\ resp.status = 200
    /\ ~resp.allowed
    /\ ~rswept
    /\ resp.n = 2
    /\ RateOf(resp.coll) = 1
    /\ resp.val = 2
    /\ <<resp.coll, resp.key>> \in denied
    /\ \E c \in (DOMAIN caches) \ {resp.coll} :
          /\ linker.contexts[resp.coll].contexts = <<c>>
          /\ KeyTotalIn(caches, c, resp.key) = 2

\* ----------------------------------------------------------- SpecLinked
\* linkers put together field by field, as test_new_handler does: foo's
\* contexts name baz, for which Handler::new makes no cache as ttls has no
\* entry for it
HandBuilt ==
    {[contexts |-> [foo |-> [contexts |-> <<"baz", "bar">>, rate |-> r],
                    bar |-> [contexts |-> <<"foo">>, rate |-> MaxRate]],
      ttls |-> [foo |-> Ttl, bar |-> Ttl],
      sweep |-> 1] : r \in 1..MaxRate}

\* Handler::new on a linker made by ContextLinker::new or by hand
InitLinkedVars ==
    /\ linkCall = NoLinkCall
    /\ linker \in {ContextLinker_new(cfg) : cfg \in Configs} \cup HandBuilt
    /\ \E now \in 0..MaxClock :
          caches = [c \in DOMAIN linker.ttls |->
                      Local_new(PartitionCount, linker.ttls[c], Window,
                                linker.sweep, now)]
    /\ req = [t \in Workers |-> IdleReq]
    /\ resp = NoResp
    /\ served = [c \in DOMAIN linker.ttls |-> [k \in RestKeys |-> 0]]
    /\ rswept = FALSE
    /\ denied = {}

InitLinked ==
    /\ InitLinkedVars
    /\ InitTTLIdle
    /\ InitKMIdle
    /\ InitLocalIdle
    /\ InitNewIdle
    /\ InitOrderIdle

NextLinked ==
    \/ \E t \in Workers, coll \in ReqColls, key \in ReqKeys : Handle(t, coll, key)
    \/ \E t \in Workers : HandleLinkedRead(t)
    \/ \E t \in Workers : HandleRespond(t)
    \/ \E c \in Colls : RestClockTick(c)

SpecLinked == InitLinked /\ [][NextLinked]_vars

\* the step is worker t's entry into Handler::handle, up to the comparison
\* of val with the rate
EntryStep(t) ==
    req[t].pc = "idle" /\ (req'[t].pc = "linked" \/ resp'.status # 0)

\* the step is a turn of the loop of get_linked_vals of worker t, or what
\* follows the loop
LinkedStep(t) ==
    req[t].pc = "linked" /\ (req'[t].i # req[t].i \/ req'[t].pc = "idle")

\* the linked name the loop of worker t is at
LinkedName(t) == linker.contexts[req[t].coll].contexts[req[t].i]

\* C35: handling a request for collection c changes only c's cache: the
\* linked collections are read with create = false and left as they were, a
\* linked name with no cache is passed over, and a request denied because its
\* own total is over the rate is answered before any linked cache is read.
C35_LinkedUntouched ==
    [][\A t \in Workers :
          /\ EntryStep(t) =>
                LET c == IF resp'.status # 0 THEN resp'.coll ELSE req'[t].coll
                IN  \A x \in (DOMAIN caches) \ {c} : caches'[x] = caches[x]
          /\ LinkedStep(t) =>
                /\ caches' = caches
                /\ (req'[t].pc = "linked" /\ LinkedName(t) \notin DOMAIN caches) =>
                      req'[t].linked = req[t].linked /\ resp'.status = 0
                /\ (req'[t].pc = "linked" /\ LinkedName(t) \in DOMAIN caches) =>
                      req'[t].linked = req[t].linked
                          + KeyTotalIn(caches, LinkedName(t), req[t].key)
          /\ (resp'.status = 200 /\ resp'.val > RateOf(resp'.coll)) =>
                req[t].pc = "idle" /\ ~resp'.allowed /\ resp'.linked = 0]_vars

\* C35 witness: a request for foo, whose contexts name baz (no cache) and
\* bar, was allowed after baz was passed over and bar's total of 1 was read,
\* and bar's total is still 1.
C35_Witness ==
    /\ resp.status = 200
    /\ resp.allowed
    /\ resp.coll = "foo"
    /\ linker.contexts["foo"].contexts = <<"baz", "bar">>
    /\ "baz" \notin DOMAIN caches
    /\ resp.linked = 1
    /\ KeyTotalIn(caches, "bar", resp.key) = 1
    /\ KeyTotalIn(caches, "foo", resp.key) = resp.val
====
